---- MODULE Spec2Model ----
(***************************************************************************)
(* Email Ingestion & Reconciliation Engine of shipment-email-merger:       *)
(* the resource lock manager (utils/lock-utils.ts) with the refresh        *)
(* endpoint that uses it, the connection manager with the protocol         *)
(* sessions it hands out, and the sync orchestrator.                       *)
(***************************************************************************)
EXTENDS Integers, Sequences, FiniteSets, TLC

\* ------------------------------------------------------------------------
\* Bounds of the model
\* ------------------------------------------------------------------------
TickMs == 10000
MaxTime == 70000
MaxLocks == 2
MaxCalls == 2
ShortTimeout == 10000
LongTimeout == 60000
MaxFetchers == 2
MaxHandles == 2
MaxDiscs == 2
MaxConnCalls == 2
MaxRuns == 2
MaxSearches == 2
MaxMessages == 2
MaxSweeps == 2
MaxTokens == 2

\* ------------------------------------------------------------------------
\* Program constants
\* ------------------------------------------------------------------------
DEFAULT_TIMEOUT == 30000
CLEANUP_INTERVAL == 60000
EXPIRY_GRACE == 10000
REFRESH_TIMEOUT == 25000

\* the lock key of refreshEmailGroup, `${userEmail}_${emailGroupId}`
Keys == {"u1_123456"}

\* timeouts a caller of acquireLock may pass
CallerTimeouts == {ShortTimeout, LongTimeout}

\* the last instant the bounded clock reaches
LastTick == (MaxTime \div TickMs) * TickMs

VARIABLES
    now,            \* Date.now(), in ms
    locks,          \* LockUtils.locks: key -> id of the registered lock promise (0: no entry)
    lockPromises,   \* every lock promise created so far, with the execution it wraps
    calls,          \* every acquireLock / refreshEmailGroup call made so far
    nextSweep       \* next firing of the setInterval cleanup of LockUtils

lockVars == <<now, locks, lockPromises, calls, nextSweep>>

VARIABLES
    fetchers,           \* every EmailFetcherService created so far: isConnected, imap
    handles,            \* every Imap object created by connect(), with its connect() promise
    discs,              \* every disconnect() call: its 'end' listener and its promise
    activeConnections,  \* EmailConnectionManager.activeConnections for the identity (0: none)
    connectionLocks,    \* EmailConnectionManager.connectionLocks for the identity (0: none)
    connCalls,          \* every getConnection / refreshConnection call made so far
    runs,               \* every sync run (full sweep or targeted lookup) started so far
    credentials         \* the stored access token of the identity, as a version number

connVars == <<fetchers, handles, discs, activeConnections, connectionLocks, connCalls, runs,
              credentials>>

VARIABLES
    mailbox,    \* the remote mailbox: message number -> message
    dbGroups,   \* persisted groups: code -> updatedAt (0: no such group)
    dbEmails,   \* persisted messages: pairs <<id, code of the group>>
    clock,      \* new Date() of the persistence layer, in sweeps made
    genCount,   \* how many message ids the fetcher has generated so far
    sweepLog    \* one record per completed full sweep

syncVars == <<mailbox, dbGroups, dbEmails, clock, genCount, sweepLog>>

VARIABLES
    rawId,        \* the id handed to normalizeEmailGroupId / findBestFuzzyMatch
    existingIds,  \* the existingIds handed to findBestFuzzyMatch
    emailsForGrouping, \* the emails handed to groupEmailsByEmailGroup
    normalized,   \* results of normalizeEmailGroupId applied to rawId, then to its results
    fuzzyLog,     \* results of the findBestFuzzyMatch calls made
    groupLog,     \* one record per groupEmailsByEmailGroup call made
    parsedEmail,  \* the email handed to isRelevantEmail: subject, from, text, emailGroupId
    relevantLog   \* results of the isRelevantEmail calls made

groupingVars == <<rawId, existingIds, emailsForGrouping, normalized, fuzzyLog, groupLog,
                  parsedEmail, relevantLog>>

VARIABLES
    inbox,      \* the remote mailbox of the store model: message number -> message
    groupRows,  \* table email_groups: code -> row
    emailRows,  \* table emails: message id -> row
    syncs,      \* every sync (full sweep or targeted lookup) started on the store
    dateNow     \* new Date(), in syncs started

storeVars == <<inbox, groupRows, emailRows, syncs, dateNow>>

VARIABLES
    bulkFetch   \* the fetchEmailsWithAttachments calls made: events, counters, promise

fetchVars == <<bulkFetch>>

VARIABLES
    cleanedUp   \* cleanupConnection or forceCleanup has returned and neither
                \* getConnection nor refreshConnection has been called since

cleanupVars == <<cleanedUp>>

vars == <<now, locks, lockPromises, calls, nextSweep,
          fetchers, handles, discs, activeConnections, connectionLocks, connCalls, runs,
          credentials,
          mailbox, dbGroups, dbEmails, clock, genCount, sweepLog,
          rawId, existingIds, emailsForGrouping, normalized, fuzzyLog, groupLog,
          parsedEmail, relevantLog,
          inbox, groupRows, emailRows, syncs, dateNow, bulkFetch, cleanedUp>>

\* ------------------------------------------------------------------------
\* Outcomes of promises.  An Error carries only its message; exec names the
\* execution that produced the object, so that two outcomes are equal only
\* when they are the same object.
\* ------------------------------------------------------------------------
NoOutcome == [kind |-> "none", msg |-> "", exec |-> 0]

\* messages of the values performRefresh returns
OpValueMessages == {"Group up to date"}

\* messages of the errors performRefresh throws (its own and the fetcher's)
OpErrorMessages == {"Email group not found", "IMAP connection timeout expired"}

\* message of the Error executeWithTimeout rejects with when its timer fires
LockTimeoutMessage == "Operation timeout for lock"

OpResults == [kind : {"value"}, msg : OpValueMessages] \cup [kind : {"error"}, msg : OpErrorMessages]

\* error.message.includes('timeout')
MessageIncludesTimeout(m) == m \in {"IMAP connection timeout expired", "Operation timeout for lock"}

\* ------------------------------------------------------------------------
\* LockUtils
\* ------------------------------------------------------------------------
\* cleanupExpiredLocks: drop every entry older than DEFAULT_TIMEOUT + 10000
cleanupExpiredLocks(ls, t) ==
    [k \in Keys |->
        IF ls[k] # 0 /\ t - lockPromises[ls[k]].timestamp > DEFAULT_TIMEOUT + EXPIRY_GRACE
        THEN 0 ELSE ls[k]]

\* acquireLock without the lookup of an existing entry
ExistingLockIgnored(ls, k) == 0

\* this.locks.get(key)
ExistingLock(ls, k) == ls[k]

\* the Error of the timer callback of executeWithTimeout
TimeoutOutcome(p) == [kind |-> "error", msg |-> LockTimeoutMessage, exec |-> p]

\* resolve(result) / reject(error) of executeWithTimeout after `await operation()`
OperationOutcome(p, res) == [kind |-> res.kind, msg |-> res.msg, exec |-> p]

\* a lock promise without its .finally()
ReleaseLockSkipped(ls, k) == ls

\* .finally(() => this.locks.delete(key))
ReleaseLock(ls, k) == [ls EXCEPT ![k] = 0]

\* forceRelease(key)
forceRelease(ls, k) == [ls EXCEPT ![k] = 0]

\* a promise that a late resolve()/reject() settles again
SettleAgain(pr, out) ==
    [pr EXCEPT !.state = IF out.kind = "value" THEN "resolved" ELSE "rejected",
               !.outcome = out]

\* a settled promise ignores a later resolve()/reject()
SettleOnce(pr, out) ==
    IF pr.state = "pending"
    THEN [pr EXCEPT !.state = IF out.kind = "value" THEN "resolved" ELSE "rejected",
                    !.outcome = out]
    ELSE pr

\* HTTP status of refreshEmailGroup for a settled lock promise
RefreshResponse(out) ==
    IF out.kind = "value" THEN "200"
    ELSE IF MessageIncludesTimeout(out.msg) THEN "408" ELSE "500"

\* the continuation of every caller awaiting promise p, run when p settles
Deliver(cs, p, out) ==
    [i \in 1..Len(cs) |->
        IF cs[i].p = p /\ cs[i].out = NoOutcome
        THEN [cs[i] EXCEPT !.out = out,
                           !.doneAt = now,
                           !.resp = IF cs[i].kind = "refresh" THEN RefreshResponse(out) ELSE ""]
        ELSE cs[i]]

\* the catch block of refreshEmailGroup calls forceRelease(userLockKey)
ReleaseAfterCatch(ls, cs, p, out) ==
    IF out.kind = "error" /\ \E i \in 1..Len(cs) : cs[i].p = p /\ cs[i].kind = "refresh"
    THEN forceRelease(ls, lockPromises[p].key)
    ELSE ls

PendingFor(k) == {q \in 1..Len(lockPromises) : lockPromises[q].key = k /\ lockPromises[q].state = "pending"}

RunningFor(k) == {q \in 1..Len(lockPromises) : lockPromises[q].key = k /\ lockPromises[q].opState = "running"}

NewLockPromise(k, t, kind) ==
    [key |-> k, timestamp |-> now, timeoutMs |-> t, kind |-> kind,
     state |-> "pending", outcome |-> NoOutcome,
     opState |-> "running", opResult |-> NoOutcome,
     timedOut |-> FALSE, overlapped |-> RunningFor(k) # {}]

NewCall(k, t, kind, p, started) ==
    [key |-> k, t |-> t, kind |-> kind, p |-> p, started |-> started, at |-> now,
     entryAtCall |-> cleanupExpiredLocks(locks, now)[k], pendingAtCall |-> PendingFor(k),
     out |-> NoOutcome, doneAt |-> 0, resp |-> ""]

\* acquireLock(key, operation, timeoutMs), the body shared by every caller
acquireLock(k, t, kind) ==
    LET swept == cleanupExpiredLocks(locks, now)
        existingLock == ExistingLock(swept, k)
        id == Len(lockPromises) + 1
    IN  /\ Len(calls) < MaxCalls
        /\ IF existingLock # 0
           THEN /\ locks' = swept
                /\ calls' = Append(calls, NewCall(k, t, kind, existingLock, FALSE))
                /\ UNCHANGED lockPromises
           ELSE /\ Len(lockPromises) < MaxLocks
                /\ now + t <= LastTick
                /\ lockPromises' = Append(lockPromises, NewLockPromise(k, t, kind))
                /\ locks' = [swept EXCEPT ![k] = id]
                /\ calls' = Append(calls, NewCall(k, t, kind, id, TRUE))

\* a client of the LockUtils API calls acquireLock
AcquireLock(k, t) ==
    /\ acquireLock(k, t, "api")
    /\ UNCHANGED <<now, nextSweep>>
    /\ UNCHANGED <<connVars, syncVars, groupingVars, storeVars, fetchVars, cleanupVars>>

\* EmailController.refreshEmailGroup up to its await
RefreshEmailGroup(k) ==
    LET swept == cleanupExpiredLocks(locks, now)
    IN  /\ Len(calls) < MaxCalls
        /\ IF swept[k] # 0
           THEN \* hasLock: 'Refresh already in progress'
                /\ locks' = swept
                /\ calls' = Append(calls,
                       [NewCall(k, REFRESH_TIMEOUT, "refresh", 0, FALSE)
                            EXCEPT !.out = [kind |-> "value", msg |-> "Refresh already in progress", exec |-> 0],
                                   !.doneAt = now,
                                   !.resp = "inProgress"])
                /\ UNCHANGED lockPromises
           ELSE acquireLock(k, REFRESH_TIMEOUT, "refresh")
        /\ UNCHANGED <<now, nextSweep>>
        /\ UNCHANGED <<connVars, syncVars, groupingVars, storeVars, fetchVars, cleanupVars>>

\* the timer of executeWithTimeout fires before the operation has settled
TimerFire(p) ==
    /\ p \in 1..Len(lockPromises)
    /\ lockPromises[p].state = "pending"
    /\ now - lockPromises[p].timestamp >= lockPromises[p].timeoutMs
    /\ LET out == TimeoutOutcome(p)
           pr == [SettleOnce(lockPromises[p], out) EXCEPT !.timedOut = TRUE]
       IN  /\ lockPromises' = [lockPromises EXCEPT ![p] = pr]
           /\ locks' = ReleaseAfterCatch(ReleaseLock(locks, pr.key), calls, p, out)
           /\ calls' = Deliver(calls, p, out)
    /\ UNCHANGED <<now, nextSweep>>
    /\ UNCHANGED <<connVars, syncVars, groupingVars, storeVars, fetchVars, cleanupVars>>

\* the operation returns or throws
OperationCompletes(p, res) ==
    /\ p \in 1..Len(lockPromises)
    /\ lockPromises[p].opState = "running"
    /\ LET out == OperationOutcome(p, res)
           wasPending == lockPromises[p].state = "pending"
           pr == [SettleOnce(lockPromises[p], out) EXCEPT !.opState = "done", !.opResult = out]
       IN  /\ lockPromises' = [lockPromises EXCEPT ![p] = pr]
           /\ locks' = IF wasPending
                       THEN ReleaseAfterCatch(ReleaseLock(locks, pr.key), calls, p, out)
                       ELSE locks
           /\ calls' = IF wasPending THEN Deliver(calls, p, out) ELSE calls
    /\ UNCHANGED <<now, nextSweep>>
    /\ UNCHANGED <<connVars, syncVars, groupingVars, storeVars, fetchVars, cleanupVars>>

\* hasLock(key) / getActiveLocks(): sweep, then read
HasLock(k) ==
    /\ locks' = cleanupExpiredLocks(locks, now)
    /\ locks' # locks
    /\ UNCHANGED <<now, lockPromises, calls, nextSweep>>
    /\ UNCHANGED <<connVars, syncVars, groupingVars, storeVars, fetchVars, cleanupVars>>

\* forceRelease(key) by a client of the API
ForceRelease(k) ==
    /\ locks[k] # 0
    /\ locks' = forceRelease(locks, k)
    /\ UNCHANGED <<now, lockPromises, calls, nextSweep>>
    /\ UNCHANGED <<connVars, syncVars, groupingVars, storeVars, fetchVars, cleanupVars>>

\* setInterval(() => this.cleanupExpiredLocks(), CLEANUP_INTERVAL)
IntervalSweep ==
    /\ now >= nextSweep
    /\ locks' = cleanupExpiredLocks(locks, now)
    /\ nextSweep' = nextSweep + CLEANUP_INTERVAL
    /\ UNCHANGED <<now, lockPromises, calls>>
    /\ UNCHANGED <<connVars, syncVars, groupingVars, storeVars, fetchVars, cleanupVars>>

TimerDue(p) ==
    /\ lockPromises[p].state = "pending"
    /\ now - lockPromises[p].timestamp >= lockPromises[p].timeoutMs

\* time passes; a timer that is due fires before the clock moves on
Tick ==
    /\ now + TickMs <= MaxTime
    /\ \A p \in 1..Len(lockPromises) : ~TimerDue(p)
    /\ now < nextSweep
    /\ now' = now + TickMs
    /\ UNCHANGED <<locks, lockPromises, calls, nextSweep>>
    /\ UNCHANGED <<connVars, syncVars, groupingVars, storeVars, fetchVars, cleanupVars>>

\* LockUtils after construction
LockIdle ==
    /\ now = 0
    /\ locks = [k \in Keys |-> 0]
    /\ lockPromises = <<>>
    /\ calls = <<>>
    /\ nextSweep = CLEANUP_INTERVAL

\* EmailConnectionManager after construction, no session opened, no run started
ConnIdle ==
    /\ fetchers = <<>>
    /\ handles = <<>>
    /\ discs = <<>>
    /\ activeConnections = 0
    /\ connectionLocks = 0
    /\ connCalls = <<>>
    /\ runs = <<>>
    /\ credentials = 1

\* group codes of the modelled mailbox, as extractEmailGroupIdFromText returns them
Codes == {"123456", "123457"}

\* the group code parseEmail gives a message whose subject carries none
Unknown == "unknown"

\* a message: whether it has a Message-ID header, the code in its subject, the
\* code in its body, and whether its date lies in the range of the sweep
Messages ==
    [hasId : BOOLEAN, subj : Codes \cup {Unknown}, text : Codes \cup {Unknown}, inRange : BOOLEAN]

\* a message no search of the engine finds
Unrelated == [hasId |-> TRUE, subj |-> Unknown, text |-> Unknown, inRange |-> FALSE]

\* nothing persisted, no sweep made
DbEmpty ==
    /\ dbGroups = [c \in Codes |-> 0]
    /\ dbEmails = {}
    /\ clock = 1
    /\ genCount = 0
    /\ sweepLog = <<>>

SyncIdle == mailbox = [i \in 1..MaxMessages |-> Unrelated] /\ DbEmpty

\* nothing persisted in the store model, no sync started, no bulk fetch made
StoreIdle ==
    /\ inbox = <<>>
    /\ groupRows = <<>>
    /\ emailRows = <<>>
    /\ syncs = <<>>
    /\ dateNow = 1
    /\ bulkFetch = <<>>
    /\ cleanedUp = FALSE

\* no call of the group-identifier utilities or of the grouper made
GroupingIdle ==
    /\ rawId = <<>>
    /\ existingIds = <<>>
    /\ emailsForGrouping = <<>>
    /\ normalized = <<>>
    /\ fuzzyLog = <<>>
    /\ groupLog = <<>>
    /\ parsedEmail = <<>>
    /\ relevantLog = <<>>

LockInit == LockIdle /\ ConnIdle /\ StoreIdle /\ SyncIdle /\ GroupingIdle

\* the LockUtils API under arbitrary clients
LockNext ==
    \/ \E k \in Keys, t \in CallerTimeouts : AcquireLock(k, t)
    \/ \E k \in Keys : RefreshEmailGroup(k)
    \/ \E p \in 1..MaxLocks : TimerFire(p)
    \/ \E p \in 1..MaxLocks, res \in OpResults : OperationCompletes(p, res)
    \/ \E k \in Keys : HasLock(k)
    \/ \E k \in Keys : ForceRelease(k)
    \/ IntervalSweep
    \/ Tick

LockSpec == LockInit /\ [][LockNext]_vars

\* the refresh endpoint as the program drives the lock manager: requests,
\* timers, completions and the periodic sweep
RefreshNext ==
    \/ \E k \in Keys : RefreshEmailGroup(k)
    \/ \E p \in 1..MaxLocks : TimerFire(p)
    \/ \E p \in 1..MaxLocks, res \in OpResults : OperationCompletes(p, res)
    \/ IntervalSweep
    \/ Tick

RefreshSpec == LockInit /\ [][RefreshNext]_vars

\* setTimeout callbacks run and time passes
LockFairness ==
    /\ WF_vars(Tick)
    /\ WF_vars(IntervalSweep)
    /\ \A p \in 1..MaxLocks : WF_vars(TimerFire(p))

FairLockSpec == LockSpec /\ LockFairness

\* ------------------------------------------------------------------------
\* Properties of the lock manager
\* ------------------------------------------------------------------------
AcquireCalls == {i \in 1..Len(calls) : calls[i].p # 0}

\* C1 as claimed: a call to acquireLock(K, ...) issued while an earlier
\* acquireLock(K, ...) is still in flight starts no operation, and settles
\* with the outcome of the call in flight.
C1_InFlightCallsCoalesce ==
    \A i \in AcquireCalls : \A q \in calls[i].pendingAtCall :
        /\ ~calls[i].started
        /\ calls[i].p = q

\* C1 as amended: a call to acquireLock(K, ...) that finds a lock entry
\* registered under K starts no operation and joins that entry; every lock
\* entry has exactly one started operation; all the callers of one entry
\* settle together, with the identical outcome of that entry.
C1_RegisteredCallsCoalesce ==
    /\ \A i \in AcquireCalls :
          calls[i].entryAtCall # 0 => (~calls[i].started /\ calls[i].p = calls[i].entryAtCall)
    /\ \A q \in 1..Len(lockPromises) :
          Cardinality({i \in AcquireCalls : calls[i].p = q /\ calls[i].started}) = 1
    /\ \A i \in AcquireCalls : calls[i].out = lockPromises[calls[i].p].outcome

C1_Witness ==
    \E i, j \in AcquireCalls :
        /\ i # j
        /\ calls[i].p = calls[j].p
        /\ calls[i].started /\ ~calls[j].started
        /\ calls[j].at > calls[i].at
        /\ calls[i].out # NoOutcome
        /\ calls[j].out = calls[i].out

\* C2: at most one execution of the refresh operation runs for a lock key.
C2_OneExecutionPerKey ==
    \A k \in Keys : Cardinality(RunningFor(k)) <= 1

\* C7: when the timer fires first, the promise rejects with the timeout
\* error, which no operation throws; the operation is left running and
\* completes later; its completion changes neither the promise nor what
\* the callers received.
C7_TimeoutLeavesOperationRunning ==
    /\ [](\A p \in 1..Len(lockPromises) :
            lockPromises[p].timedOut =>
                /\ lockPromises[p].state = "rejected"
                /\ lockPromises[p].outcome = TimeoutOutcome(p)
                /\ lockPromises[p].outcome.msg \notin OpErrorMessages \cup OpValueMessages
                /\ lockPromises[p].opResult # lockPromises[p].outcome
                /\ \A i \in AcquireCalls : calls[i].p = p => calls[i].out = TimeoutOutcome(p))
    /\ [][\A p \in 1..Len(lockPromises) :
            /\ (~lockPromises[p].timedOut /\ lockPromises'[p].timedOut) =>
                   lockPromises'[p].opState = "running"
            /\ lockPromises[p].state # "pending" =>
                   /\ lockPromises'[p].state = lockPromises[p].state
                   /\ lockPromises'[p].outcome = lockPromises[p].outcome
                   /\ lockPromises'[p].opState \in {lockPromises[p].opState, "done"}]_vars

C7_Witness ==
    \E p \in 1..Len(lockPromises) :
        /\ lockPromises[p].timedOut
        /\ lockPromises[p].opState = "done"
        /\ lockPromises[p].opResult.kind = "value"
        /\ lockPromises[p].outcome = TimeoutOutcome(p)
        /\ \E i \in AcquireCalls : calls[i].p = p /\ calls[i].out = TimeoutOutcome(p)

\* C8: a lock entry is released when its execution completes (success, error
\* or timeout): no settled promise stays registered, every registered entry
\* is eventually removed, and a call coalesces only onto a pending promise.
C8_LockReleasedOnCompletion ==
    /\ [](\A k \in Keys : locks[k] # 0 => lockPromises[locks[k]].state = "pending")
    /\ [](\A i \in AcquireCalls : ~calls[i].started => calls[i].p \in calls[i].pendingAtCall)
    /\ \A k \in Keys : (locks[k] # 0) ~> (locks[k] = 0)

C8_Witness ==
    \E i, j \in AcquireCalls :
        /\ i < j
        /\ calls[i].key = calls[j].key
        /\ calls[i].out # NoOutcome
        /\ calls[j].at >= calls[i].doneAt
        /\ calls[j].started
        /\ calls[j].p # calls[i].p
        /\ calls[j].pendingAtCall = {}

\* C9: a caller that coalesces onto a held key waits at most its own timeout.
C9_JoinerWaitsAtMostOwnTimeout ==
    \A i \in AcquireCalls :
        ~calls[i].started =>
            (IF calls[i].out = NoOutcome THEN now ELSE calls[i].doneAt) - calls[i].at <= calls[i].t

\* C19: the refresh endpoint answers 408 ('try again shortly') if and only if
\* the lock timer expired before the refresh finished; a failure of any other
\* kind is never reported as a lock timeout
C19_LockTimeoutResponseOnlyForLockTimeout ==
    \A i \in 1..Len(calls) :
        (calls[i].kind = "refresh" /\ calls[i].resp \notin {"", "inProgress"}) =>
            (calls[i].resp = "408" <=> calls[i].out = TimeoutOutcome(calls[i].p))

\* lock promise p settles in this step, so its .finally() runs
SettlesNow(p) == lockPromises[p].state = "pending" /\ lockPromises'[p].state # "pending"

\* the catch block of refreshEmailGroup runs with p's rejection and calls
\* forceRelease
CatchReleases(p) ==
    /\ lockPromises'[p].state = "rejected"
    /\ \E i \in 1..Len(calls) : calls[i].p = p /\ calls[i].kind = "refresh"

\* C27: the completion handler of an execution removes no lock entry but its
\* own: an entry that a later acquireLock installed for the same key (after the
\* earlier entry was force-released or swept as expired while its operation was
\* running) stays when the earlier execution completes
C27_CompletionRemovesOnlyOwnEntry ==
    [][\A p \in 1..Len(lockPromises) :
          (SettlesNow(p) /\ ~ CatchReleases(p)) =>
              LET k == lockPromises[p].key
              IN  (locks[k] # 0 /\ locks[k] # p) => locks'[k] = locks[k]]_vars

\* ------------------------------------------------------------------------
\* Connection manager, protocol sessions and sync runs (one mailbox identity)
\* ------------------------------------------------------------------------

\* messages of the 'error' event of an Imap object that connect() tells apart
ConnectErrors == {"AUTHENTICATIONFAILED", "Connection timed out", "Already connected", "ECONNRESET"}

\* the error connect() rejects with for an 'error' event
ConnectRejection(e) ==
    IF e = "AUTHENTICATIONFAILED" THEN "OAuth2 token invalid for IMAP access"
    ELSE IF e = "Connection timed out" THEN "Mail server connection timeout"
    ELSE e

ConnectTimeoutMessage == "IMAP connection timeout expired"

SyncKinds == {"sweep", "lookup"}

\* EmailFetcherService.isActive()
isActive(fs, f) == fs[f].isConnected /\ fs[f].imap # 0

\* new EmailFetcherService({email, accessToken}, ...) followed by its first
\* connect(): imap is the new Imap
NewFetcher(h, t) == [isConnected |-> FALSE, imap |-> h, accessToken |-> t]

\* the Imap object, the listeners and the promise that connect() creates
NewHandle(f, attempt) ==
    [owner |-> f, st |-> "connecting", promise |-> "pending", err |-> "", attempt |-> attempt]

\* handlers without the assignments isConnected = false; imap = null
ResetSessionSkipped(fs, f) == fs

\* the assignments isConnected = false; imap = null of the 'error', 'end' and
\* disconnect-timeout handlers
ResetSession(fs, f) == [fs EXCEPT ![f].isConnected = FALSE, ![f].imap = 0]

\* a disconnect() that never calls imap.end()
EndNotRequested(hs, h) == hs

\* imap.end(): the connection starts closing
EndRequested(hs, h) ==
    [hs EXCEPT ![h].st = IF @ \in {"connecting", "ready"} THEN "closing" ELSE @]

\* the 'end' listener, the 5000 ms timer and the promise of one disconnect() call;
\* run is the sync run awaiting it (0: nobody awaits it)
NewDisc(h, f, r) == [h |-> h, owner |-> f, state |-> "pending", armed |-> TRUE, run |-> r]

\* safeDisconnect() up to its await; r is the run awaiting it (0: fire and forget)
safeDisconnect(st, f, r) ==
    IF ~ (st.fs[f].isConnected /\ st.fs[f].imap # 0)
    THEN st
    ELSE [st EXCEPT !.hs = EndRequested(@, st.fs[f].imap),
                    !.ds = Append(@, NewDisc(st.fs[f].imap, f, r)),
                    !.ok = @ /\ Len(st.ds) < MaxDiscs]

\* the finally block of a sync run: await safeDisconnect(), then the run ends
Finally(st, r, outcome) ==
    LET f == st.rs[r].f
        st1 == safeDisconnect(st, f, r)
    IN  IF Len(st1.ds) > Len(st.ds)
        THEN [st1 EXCEPT !.rs[r].pc = "disconnecting", !.rs[r].wait = Len(st1.ds),
                         !.rs[r].outcome = outcome]
        ELSE [st1 EXCEPT !.rs[r].pc = "done", !.rs[r].wait = 0, !.rs[r].outcome = outcome]

\* a fetch of run r rejected: the per-code fetches of the sweep swallow the
\* error (fetchExtendedEmails), every other fetch leaves the try block
FetchFailed(st, r) ==
    IF st.rs[r].kind = "sweep" /\ st.rs[r].n >= 1
    THEN [st EXCEPT !.rs[r].pc = "processing", !.rs[r].wait = 0]
    ELSE Finally(st, r, "failed")

\* the search of a fetch is issued on this.imap, or rejects with
\* 'IMAP connection unavailable'
IssueSearch(st, r) ==
    IF st.fs[st.rs[r].f].imap # 0
    THEN [st EXCEPT !.rs[r].pc = "searching", !.rs[r].wait = st.fs[st.rs[r].f].imap]
    ELSE FetchFailed(st, r)

\* connect() of run r on its session when isConnected is false: a new Imap
\* replaces this.imap, and the run awaits its 'ready', its 'error' or the timer
connect(st, r, phase) ==
    LET f == st.rs[r].f
        h == Len(st.hs) + 1
    IN  [st EXCEPT !.hs = Append(@, NewHandle(f, FALSE)),
                   !.fs[f].imap = h,
                   !.rs[r].pc = "connecting", !.rs[r].phase = phase, !.rs[r].wait = h,
                   !.ok = @ /\ Len(st.hs) < MaxHandles]

\* fetchEmailsFilteredByEmailGroupId / fetchEmailsByEmailGroupId up to the first await
Fetch(st, r) ==
    LET f == st.rs[r].f
    IN  IF st.fs[f].isConnected THEN IssueSearch(st, r) ELSE connect(st, r, "fetch")

\* run r resumes after the connect() it awaited settled
ConnectSettled(st, r, res) ==
    IF st.rs[r].phase = "initial"
    THEN IF res = "resolved" THEN Fetch(st, r) ELSE Finally(st, r, "failed")
    ELSE IF res = "resolved" THEN IssueSearch(st, r) ELSE FetchFailed(st, r)

\* the sessions, connections, disconnect() calls and runs as one value
Sessions == [fs |-> fetchers, hs |-> handles, ds |-> discs, rs |-> runs, ok |-> TRUE]

\* the next state of the sessions is st, which stays within the bounds
Becomes(st) ==
    /\ st.ok
    /\ fetchers' = st.fs
    /\ handles' = st.hs
    /\ discs' = st.ds
    /\ runs' = st.rs

\* attempts of createNewConnection whose connect() has not settled
PendingAttempts == {h \in 1..Len(handles) : handles[h].attempt /\ handles[h].promise = "pending"}

\* Imap objects of the identity that are connecting or connected
LiveHandles == {h \in 1..Len(handles) : handles[h].st \in {"connecting", "ready"}}

NewConnCall(kind, attempt, originator, result, sup, supDisc) ==
    [kind |-> kind, attempt |-> attempt, originator |-> originator, result |-> result,
     err |-> "", accessToken |-> credentials,
     pendingAtCall |-> PendingAttempts, liveAtCall |-> LiveHandles,
     superseded |-> sup, supersededDisc |-> supDisc]

\* cleanupConnection(email): safeDisconnect() is not awaited, the entry is deleted
cleanupConnection(st, act) ==
    IF act # 0 THEN safeDisconnect(st, act, 0) ELSE st

\* getConnection(email, ...) up to its await, called in sessions st with registry
\* entry act; sup and supDisc describe the session a refresh has just cleaned up
getConnection(kind, st, act, sup, supDisc) ==
    LET f == Len(st.fs) + 1
        h == Len(st.hs) + 1
    IN  /\ Len(connCalls) < MaxConnCalls
        /\ activeConnections' = act
        /\ IF act # 0 /\ isActive(st.fs, act)
           THEN /\ Becomes(st)
                /\ connCalls' = Append(connCalls, NewConnCall(kind, 0, FALSE, act, sup, supDisc))
                /\ UNCHANGED connectionLocks
           ELSE IF connectionLocks # 0
           THEN /\ Becomes(st)
                /\ connCalls' = Append(connCalls,
                       NewConnCall(kind, connectionLocks, FALSE, 0, sup, supDisc))
                /\ UNCHANGED connectionLocks
           ELSE /\ Len(st.fs) < MaxFetchers
                /\ Len(st.hs) < MaxHandles
                /\ Becomes([st EXCEPT !.fs = Append(@, NewFetcher(h, credentials)),
                                      !.hs = Append(@, NewHandle(f, TRUE))])
                /\ connectionLocks' = h
                /\ connCalls' = Append(connCalls, NewConnCall(kind, h, TRUE, 0, sup, supDisc))

\* a request calls getConnection
GetConnection ==
    /\ getConnection("get", Sessions, activeConnections, 0, 0)
    /\ UNCHANGED <<lockVars, syncVars, groupingVars, storeVars, fetchVars, cleanupVars, credentials>>

\* a request calls refreshConnection: cleanupConnection, then getConnection
RefreshConnection ==
    LET st == cleanupConnection(Sessions, activeConnections)
        supDisc == IF Len(st.ds) > Len(discs) THEN Len(st.ds) ELSE 0
    IN  /\ getConnection("refresh", st, 0, activeConnections, supDisc)
        /\ UNCHANGED <<lockVars, syncVars, groupingVars, storeVars, fetchVars, cleanupVars, credentials>>

\* a request calls cleanupConnection on its own (getEmailService on an inactive
\* session, logout)
CleanupConnection ==
    /\ activeConnections # 0
    /\ Becomes(cleanupConnection(Sessions, activeConnections))
    /\ activeConnections' = 0
    /\ UNCHANGED <<connectionLocks, connCalls>>
    /\ UNCHANGED <<lockVars, syncVars, groupingVars, storeVars, fetchVars, cleanupVars, credentials>>

\* the callers of getConnection awaiting attempt h receive its result
DeliverConnection(cs, h, res, err) ==
    [i \in 1..Len(cs) |->
        IF cs[i].attempt = h /\ cs[i].result = 0
        THEN [cs[i] EXCEPT !.result = IF res = "resolved" THEN handles[h].owner ELSE -1,
                           !.err = err]
        ELSE cs[i]]

\* connectionLocks.delete(email) of the finally block of getConnection
ReleaseConnectionLock(lock) == 0

\* the promise of the connect() call that created Imap h settles with res, in
\* sessions st: a settled promise stays as it is; the continuation of
\* getConnection registers the session and deletes the lock, the continuation of
\* a run goes on to its fetch or to its finally block
SettleConnect(st, h, res, err) ==
    IF st.hs[h].promise # "pending"
    THEN /\ Becomes(st)
         /\ UNCHANGED <<activeConnections, connectionLocks, connCalls>>
    ELSE LET st1 == [st EXCEPT !.hs[h].promise = res, !.hs[h].err = err]
         IN  IF st.hs[h].attempt
             THEN /\ Becomes(st1)
                  /\ activeConnections' =
                         IF res = "resolved" THEN st.hs[h].owner ELSE activeConnections
                  /\ connectionLocks' = ReleaseConnectionLock(connectionLocks)
                  /\ connCalls' = DeliverConnection(connCalls, h, res, err)
             ELSE LET r == CHOOSE r \in 1..Len(runs) :
                               runs[r].pc = "connecting" /\ runs[r].wait = h
                  IN  /\ Becomes(ConnectSettled(st1, r, res))
                      /\ UNCHANGED <<activeConnections, connectionLocks, connCalls>>

\* Imap h emits 'ready': isConnected = true; resolve()
HandleReady(h) ==
    /\ h \in 1..Len(handles)
    /\ handles[h].st = "connecting"
    /\ SettleConnect([Sessions EXCEPT !.hs[h].st = "ready",
                                      !.fs[handles[h].owner].isConnected = TRUE],
                     h, "resolved", "")
    /\ UNCHANGED <<lockVars, syncVars, groupingVars, storeVars, fetchVars, cleanupVars, credentials>>

\* the session state the 'error' handler of connect() leaves for error e
AfterError(fs, f, e) ==
    IF e = "Already connected"
    THEN [ResetSession(fs, f) EXCEPT ![f].isConnected = TRUE]
    ELSE ResetSession(fs, f)

\* Imap h emits 'error' while connecting
ConnectError(h, e) ==
    /\ h \in 1..Len(handles)
    /\ handles[h].st = "connecting"
    /\ SettleConnect([Sessions EXCEPT !.hs[h].st = "failed",
                                      !.fs = AfterError(@, handles[h].owner, e)],
                     h, IF e = "Already connected" THEN "resolved" ELSE "rejected",
                     IF e = "Already connected" THEN "" ELSE ConnectRejection(e))
    /\ UNCHANGED <<lockVars, syncVars, groupingVars, storeVars, fetchVars, cleanupVars, credentials>>

\* Imap h emits 'error' after it was connected (the connection is lost): the
\* once('error') listener of connect() is still registered
ConnectionError(h) ==
    /\ h \in 1..Len(handles)
    /\ handles[h].st \in {"ready", "closing"}
    /\ SettleConnect([Sessions EXCEPT !.hs[h].st = "failed",
                                      !.fs = AfterError(@, handles[h].owner, "ECONNRESET")],
                     h, "rejected", "ECONNRESET")
    /\ UNCHANGED <<lockVars, syncVars, groupingVars, storeVars, fetchVars, cleanupVars, credentials>>

\* the 15000 ms timer of connect() fires: reject, the Imap object stays as it is
ConnectTimeout(h) ==
    /\ h \in 1..Len(handles)
    /\ handles[h].promise = "pending"
    /\ SettleConnect(Sessions, h, "rejected", ConnectTimeoutMessage)
    /\ UNCHANGED <<lockVars, syncVars, groupingVars, storeVars, fetchVars, cleanupVars, credentials>>

\* the runs awaiting one of the disconnect() calls in ended have ended
EndRuns(rs, ended) ==
    [r \in 1..Len(rs) |->
        IF rs[r].pc = "disconnecting" /\ rs[r].wait \in ended
        THEN [rs[r] EXCEPT !.pc = "done", !.wait = 0]
        ELSE rs[r]]

\* Imap h emits 'end': every 'end' listener of a disconnect() call resets the
\* session and resolves
HandleEnd(h) ==
    /\ h \in 1..Len(handles)
    /\ handles[h].st = "closing"
    /\ LET armed == {d \in 1..Len(discs) : discs[d].h = h /\ discs[d].armed}
           ended == {d \in armed : discs[d].state = "pending"}
       IN  /\ handles' = [handles EXCEPT ![h].st = "closed"]
           /\ fetchers' = IF armed # {} THEN ResetSession(fetchers, handles[h].owner)
                          ELSE fetchers
           /\ discs' = [d \in 1..Len(discs) |->
                           IF d \in armed
                           THEN [discs[d] EXCEPT !.state = "resolved", !.armed = FALSE]
                           ELSE discs[d]]
           /\ runs' = EndRuns(runs, ended)
    /\ UNCHANGED <<activeConnections, connectionLocks, connCalls>>
    /\ UNCHANGED <<lockVars, syncVars, groupingVars, storeVars, fetchVars, cleanupVars, credentials>>

\* the 5000 ms timer of disconnect() call d fires: reset the session and resolve
DisconnectTimeout(d) ==
    /\ d \in 1..Len(discs)
    /\ discs[d].state = "pending"
    /\ fetchers' = ResetSession(fetchers, discs[d].owner)
    /\ discs' = [discs EXCEPT ![d].state = "resolved"]
    /\ runs' = EndRuns(runs, {d})
    /\ UNCHANGED <<handles, activeConnections, connectionLocks, connCalls>>
    /\ UNCHANGED <<lockVars, syncVars, groupingVars, storeVars, fetchVars, cleanupVars, credentials>>

\* CredentialsStorageService.updateAccessToken / saveCredentials: a newer access
\* token of the identity is stored
UpdateAccessToken ==
    /\ credentials < MaxTokens
    /\ credentials' = credentials + 1
    /\ UNCHANGED <<fetchers, handles, discs, activeConnections, connectionLocks, connCalls, runs>>
    /\ UNCHANGED <<lockVars, syncVars, groupingVars, storeVars, fetchVars, cleanupVars>>

\* sessions the manager has returned to a request
ReturnedSessions == {connCalls[i].result : i \in 1..Len(connCalls)} \ {0, -1}

NewRun(f, kind) ==
    [f |-> f, kind |-> kind, pc |-> "start", phase |-> "initial", wait |-> 0, n |-> 0,
     outcome |-> ""]

\* getGroupedEmailGroups / getGroupedEmailGroupsByEmailGroupId on session f, up
\* to the first await: connect(), then the first fetch
StartRun(f, kind) ==
    /\ f \in ReturnedSessions
    /\ Len(runs) < MaxRuns
    /\ LET r == Len(runs) + 1
           st == [Sessions EXCEPT !.rs = Append(@, NewRun(f, kind))]
       IN  Becomes(IF fetchers[f].isConnected THEN Fetch(st, r)
                   ELSE connect(st, r, "initial"))
    /\ UNCHANGED <<activeConnections, connectionLocks, connCalls>>
    /\ UNCHANGED <<lockVars, syncVars, groupingVars, storeVars, fetchVars, cleanupVars, credentials>>

\* the search and fetch of run r on its Imap end: ok, or with a search or a
\* fetch error; after a fetch the sweep goes on to the next per-code fetch or
\* to parsing, the lookup goes on to parsing
SearchDone(r, ok, more) ==
    /\ r \in 1..Len(runs)
    /\ runs[r].pc = "searching"
    /\ more => ok /\ runs[r].kind = "sweep" /\ runs[r].n + 1 < MaxSearches
    /\ LET st == [Sessions EXCEPT !.rs[r].n = @ + 1]
       IN  Becomes(IF ~ ok THEN FetchFailed(Sessions, r)
                   ELSE IF more THEN Fetch(st, r)
                   ELSE [st EXCEPT !.rs[r].pc = "processing", !.rs[r].wait = 0])
    /\ UNCHANGED <<activeConnections, connectionLocks, connCalls>>
    /\ UNCHANGED <<lockVars, syncVars, groupingVars, storeVars, fetchVars, cleanupVars, credentials>>

\* parsing and grouping of run r end, with a result or with an error
ProcessingDone(r, ok) ==
    /\ r \in 1..Len(runs)
    /\ runs[r].pc = "processing"
    /\ Becomes(Finally(Sessions, r, IF ok THEN "result" ELSE "failed"))
    /\ UNCHANGED <<activeConnections, connectionLocks, connCalls>>
    /\ UNCHANGED <<lockVars, syncVars, groupingVars, storeVars, fetchVars, cleanupVars, credentials>>

ConnInit == LockIdle /\ ConnIdle /\ StoreIdle /\ SyncIdle /\ GroupingIdle

\* the connection manager under concurrent requests (getConnection,
\* refreshConnection, cleanupConnection), with the events of the Imap objects
ManagerNext ==
    \/ GetConnection
    \/ RefreshConnection
    \/ CleanupConnection
    \/ \E h \in 1..MaxHandles : HandleReady(h)
    \/ \E h \in 1..MaxHandles, e \in ConnectErrors : ConnectError(h, e)
    \/ \E h \in 1..MaxHandles : ConnectionError(h)
    \/ \E h \in 1..MaxHandles : ConnectTimeout(h)
    \/ \E h \in 1..MaxHandles : HandleEnd(h)
    \/ \E d \in 1..MaxDiscs : DisconnectTimeout(d)

ManagerSpec == ConnInit /\ [][ManagerNext]_vars

\* the sync runs of concurrent requests on the sessions the manager returned,
\* with the events of the Imap objects and sessions cleaned up under the runs
RunNext ==
    \/ GetConnection
    \/ CleanupConnection
    \/ \E h \in 1..MaxHandles : HandleReady(h)
    \/ \E h \in 1..MaxHandles, e \in ConnectErrors : ConnectError(h, e)
    \/ \E h \in 1..MaxHandles : ConnectionError(h)
    \/ \E h \in 1..MaxHandles : ConnectTimeout(h)
    \/ \E h \in 1..MaxHandles : HandleEnd(h)
    \/ \E d \in 1..MaxDiscs : DisconnectTimeout(d)
    \/ \E f \in 1..MaxFetchers, kind \in SyncKinds : StartRun(f, kind)
    \/ \E r \in 1..MaxRuns, ok \in BOOLEAN, more \in BOOLEAN : SearchDone(r, ok, more)
    \/ \E r \in 1..MaxRuns, ok \in BOOLEAN : ProcessingDone(r, ok)

RunSpec == ConnInit /\ [][RunNext]_vars

\* concurrent getConnection calls alone, with the events of the Imap objects
GetConnNext ==
    \/ GetConnection
    \/ \E h \in 1..MaxHandles : HandleReady(h)
    \/ \E h \in 1..MaxHandles, e \in ConnectErrors : ConnectError(h, e)
    \/ \E h \in 1..MaxHandles : ConnectionError(h)
    \/ \E h \in 1..MaxHandles : ConnectTimeout(h)

GetConnSpec == ConnInit /\ [][GetConnNext]_vars

\* refreshConnection under concurrent getConnection and refreshConnection calls
\* of requests that pass the stored access token, while newer tokens are stored
RefreshConnNext ==
    \/ GetConnection
    \/ RefreshConnection
    \/ UpdateAccessToken
    \/ \E h \in 1..MaxHandles : HandleReady(h)
    \/ \E h \in 1..MaxHandles, e \in ConnectErrors : ConnectError(h, e)
    \/ \E h \in 1..MaxHandles : ConnectTimeout(h)

RefreshConnSpec == ConnInit /\ [][RefreshConnNext]_vars

\* a request calls getConnection after sessions may have been cleaned up
GetConnectionCall ==
    /\ getConnection("get", Sessions, activeConnections, 0, 0)
    /\ cleanedUp' = FALSE
    /\ UNCHANGED <<lockVars, syncVars, groupingVars, storeVars, fetchVars, credentials>>

\* cleanupConnection(email) returns, whether a session was registered or not
CleanupReturns ==
    /\ Becomes(cleanupConnection(Sessions, activeConnections))
    /\ activeConnections' = 0
    /\ cleanedUp' = TRUE
    /\ UNCHANGED <<connectionLocks, connCalls>>
    /\ UNCHANGED <<lockVars, syncVars, groupingVars, storeVars, fetchVars, credentials>>

\* forceCleanup(): safeDisconnect() of every registered session, not awaited;
\* activeConnections.clear(); connectionLocks.clear()
ForceCleanup ==
    /\ Becomes(cleanupConnection(Sessions, activeConnections))
    /\ activeConnections' = 0
    /\ connectionLocks' = 0
    /\ cleanedUp' = TRUE
    /\ UNCHANGED connCalls
    /\ UNCHANGED <<lockVars, syncVars, groupingVars, storeVars, fetchVars, credentials>>

\* getConnection calls, cleanupConnection and forceCleanup of concurrent
\* requests, with the events of the Imap objects
CleanupNext ==
    \/ GetConnectionCall
    \/ CleanupReturns
    \/ ForceCleanup
    \/ \E h \in 1..MaxHandles : HandleReady(h)
    \/ \E h \in 1..MaxHandles, e \in ConnectErrors : ConnectError(h, e)
    \/ \E h \in 1..MaxHandles : ConnectionError(h)
    \/ \E h \in 1..MaxHandles : ConnectTimeout(h)
    \/ \E h \in 1..MaxHandles : HandleEnd(h)
    \/ \E d \in 1..MaxDiscs : DisconnectTimeout(d)

CleanupSpec == ConnInit /\ [][CleanupNext]_vars

\* ------------------------------------------------------------------------
\* Properties of the connection manager, the sessions and the sync runs
\* ------------------------------------------------------------------------

\* the result a caller that joined attempt h holds: none while the attempt is
\* pending, then the attempt's session or the attempt's error
HoldsResultOf(c, h) ==
    IF handles[h].promise = "pending" THEN c.result = 0
    ELSE IF handles[h].promise = "resolved" THEN c.result = handles[h].owner
    ELSE c.result = -1 /\ c.err = handles[h].err

\* C3 (a), (b): at most one attempt of createNewConnection is in flight, and
\* every getConnection call that arrives during it opens nothing and receives
\* that attempt's result
C3_AttemptsCoalesce ==
    /\ Cardinality(PendingAttempts) <= 1
    /\ \A i \in 1..Len(connCalls) :
          connCalls[i].pendingAtCall # {} =>
              /\ ~ connCalls[i].originator
              /\ connCalls[i].attempt \in connCalls[i].pendingAtCall
              /\ HoldsResultOf(connCalls[i], connCalls[i].attempt)

\* C3: under concurrent getConnection calls for one mailbox identity, at most
\* one session-open attempt is in flight, every caller arriving during it
\* receives that attempt's result, and no second protocol session is created
\* while one of the identity is connecting or Ready
C3_OneSessionAtATime ==
    /\ C3_AttemptsCoalesce
    /\ \A i \in 1..Len(connCalls) : connCalls[i].originator => connCalls[i].liveAtCall = {}

\* C6: every sync run, full sweep or targeted lookup, ends with the session
\* it used released (isActive() is false), whether it returns a result or
\* fails at connect, search, fetch, parse or grouping
C6_RunEndsWithSessionReleased ==
    [][\A r \in 1..Len(runs') :
          (runs'[r].pc = "done" /\ (r <= Len(runs) => runs[r].pc # "done"))
              => ~ isActive(fetchers', runs'[r].f)]_vars

\* two runs have ended, one with a result after its disconnect() resolved and
\* one with a failure
C6_Witness ==
    \E r1, r2 \in 1..Len(runs) :
        /\ runs[r1].pc = "done" /\ runs[r1].outcome = "result"
        /\ runs[r2].pc = "done" /\ runs[r2].outcome = "failed"
        /\ \E d \in 1..Len(discs) : discs[d].run = r1 /\ discs[d].state = "resolved"

\* refreshConnection calls that superseded a registered session
Superseding == {i \in 1..Len(connCalls) : connCalls[i].kind = "refresh" /\ connCalls[i].superseded # 0}

\* C10 as stated: the registry holds at most one session of the identity, and
\* when the session a refreshConnection call returns is installed, the
\* disconnect() of the session it superseded has finished
C10_TeardownFinishedBeforeInstall ==
    /\ [](activeConnections \in 0..Len(fetchers))
    /\ [][\A i \in Superseding :
            (connCalls[i].result = 0 /\ connCalls'[i].result > 0
                /\ connCalls[i].supersededDisc # 0)
                => discs'[connCalls[i].supersededDisc].state = "resolved"]_vars

\* C10, amended: the registry holds at most one session of the identity, and
\* from the refreshConnection call on (so before the new session is opened or
\* installed) the superseded session is out of the registry and, if it was
\* Ready, end() has been called on its connection; the disconnect is not awaited
C10_TeardownRequestedBeforeInstall ==
    /\ activeConnections \in 0..Len(fetchers)
    /\ \A i \in Superseding :
          /\ activeConnections # connCalls[i].superseded
          /\ connCalls[i].supersededDisc # 0 =>
                handles[discs[connCalls[i].supersededDisc].h].st \in {"closing", "closed", "failed"}

\* a refreshConnection call received its new session, installed in the
\* registry, while the disconnect() of the session it superseded is pending
C10_Witness ==
    \E i \in Superseding :
        /\ connCalls[i].result > 0
        /\ activeConnections = connCalls[i].result
        /\ connCalls[i].supersededDisc # 0
        /\ discs[connCalls[i].supersededDisc].state = "pending"

\* C11: the session refreshConnection returns is one that call opened, after the
\* teardown and with the access token passed to the call; it is never a session
\* registered before the call nor the result of an acquisition that was already
\* in flight
C11_RefreshReturnsOwnSession ==
    \A i \in 1..Len(connCalls) :
        (connCalls[i].kind = "refresh" /\ connCalls[i].result > 0) =>
            /\ connCalls[i].originator
            /\ connCalls[i].pendingAtCall = {}
            /\ connCalls[i].result # connCalls[i].superseded
            /\ fetchers[connCalls[i].result].accessToken = connCalls[i].accessToken

\* C12: while a session is registered as the identity's live session, only
\* operations of the connection manager connect it or tear it down: no sync run
\* calls disconnect() on it or opens a connection on it
C12_OnlyManagerChangesRegistered ==
    [][/\ \A d \in (Len(discs) + 1)..Len(discs') :
              discs'[d].run # 0 => activeConnections # discs'[d].owner
       /\ \A h \in (Len(handles) + 1)..Len(handles') :
              ~ handles'[h].attempt => activeConnections # handles'[h].owner]_vars

\* C18: whenever connect() resolves, also on 'Already connected', the session
\* is Ready (isActive() is true), and connect() on a session that is Ready
\* opens no new connection
C18_ConnectResolvesReady ==
    [][/\ \A h \in 1..Len(handles) :
              (handles[h].promise = "pending" /\ handles'[h].promise = "resolved")
                  => isActive(fetchers', handles[h].owner)
       /\ \A h \in (Len(handles) + 1)..Len(handles') :
              ~ handles'[h].attempt => ~ isActive(fetchers, handles'[h].owner)]_vars

\* C28: after cleanupConnection or forceCleanup has returned, and with no
\* getConnection or refreshConnection call since, no session is registered as
\* active, also when an attempt was in flight at the cleanup; and every
\* session the manager opened (createNewConnection resolved) is the
\* registered one unless its connection was ended
C28_NoSessionRegisteredAfterCleanup ==
    /\ cleanedUp => activeConnections = 0
    /\ \A h \in 1..Len(handles) :
          (handles[h].attempt /\ handles[h].promise = "resolved" /\ handles[h].st = "ready")
              => handles[h].owner = activeConnections

\* ------------------------------------------------------------------------
\* Full sweep: fetch, merge, parse, group, persist
\* ------------------------------------------------------------------------

\* message numbers in the order fetchEmailsWithAttachments is handed them
\* (results.reverse())
RECURSIVE Descending(_)
Descending(S) ==
    IF S = {} THEN <<>>
    ELSE LET i == CHOOSE x \in S : \A y \in S : y <= x
         IN  <<i>> \o Descending(S \ {i})

\* processSingleMessage: id is the Message-ID, or a generated
\* `msg-${Date.now()}-${Math.random()}` (here: the negated count of generated ids)
FetchedEmail(i, g, src) ==
    [id |-> IF mailbox[i].hasId THEN i ELSE 0 - (g + 1), msg |-> i, src |-> src]

\* fetchEmailsWithAttachments over the message numbers nums, with g ids
\* generated before: the fetched emails and the new count of generated ids
RECURSIVE fetchEmailsWithAttachments(_, _, _)
fetchEmailsWithAttachments(nums, g, src) ==
    IF nums = <<>> THEN [emails |-> <<>>, gen |-> g]
    ELSE LET i == Head(nums)
             rest == fetchEmailsWithAttachments(Tail(nums),
                         IF mailbox[i].hasId THEN g ELSE g + 1, src)
         IN  [emails |-> <<FetchedEmail(i, g, src)>> \o rest.emails, gen |-> rest.gen]

\* fetchEmailsFilteredByEmailGroupId: the messages of the date range whose
\* subject carries a group code
fetchEmailsFilteredByEmailGroupId(g) ==
    fetchEmailsWithAttachments(
        Descending({i \in 1..MaxMessages : mailbox[i].inRange /\ mailbox[i].subj # Unknown}),
        g, "initial")

\* fetchEmailsByEmailGroupId: every message, of any date, with the code in its
\* subject or body
fetchEmailsByEmailGroupId(c, g) ==
    fetchEmailsWithAttachments(
        Descending({i \in 1..MaxMessages : mailbox[i].subj = c \/ mailbox[i].text = c}),
        g, "extended")

\* extractEmailGroupIdFromContent on a fetched email: the first code of
\* subject + ' ' + text
extractEmailGroupIdFromContent(e) ==
    IF mailbox[e.msg].subj # Unknown THEN mailbox[e.msg].subj ELSE mailbox[e.msg].text

\* the codes searched by the extended fetch: those of the initial emails and
\* those of the persisted groups
targetEmailGroupIds(initialEmails) ==
    ({extractEmailGroupIdFromContent(initialEmails[i]) : i \in 1..Len(initialEmails)}
        \cup {c \in Codes : dbGroups[c] # 0}) \ {Unknown}

\* the codes in the order the model walks them
CodeOrder == <<"123456", "123457">>

\* fetchExtendedEmails over the codes cs, walked in CodeOrder from position k
RECURSIVE fetchExtendedEmails(_, _, _)
fetchExtendedEmails(cs, k, g) ==
    IF k > Len(CodeOrder) THEN [emails |-> <<>>, gen |-> g]
    ELSE IF CodeOrder[k] \notin cs THEN fetchExtendedEmails(cs, k + 1, g)
    ELSE LET one == fetchEmailsByEmailGroupId(CodeOrder[k], g)
             rest == fetchExtendedEmails(cs, k + 1, one.gen)
         IN  [emails |-> one.emails \o rest.emails, gen |-> rest.gen]

\* a Map.set that adds a second entry for a key that is present
MapSetAppends(map, e) == Append(map, e)

\* Map.set(email.id, email): replaces the value of a key that is present, in
\* place, and appends a new key
MapSet(map, e) ==
    IF \E i \in 1..Len(map) : map[i].id = e.id
    THEN [i \in 1..Len(map) |-> IF map[i].id = e.id THEN e ELSE map[i]]
    ELSE Append(map, e)

\* emails.forEach(email => { if (email.id) allEmailsMap.set(email.id, email) })
RECURSIVE SetEach(_, _)
SetEach(map, emails) ==
    IF emails = <<>> THEN map
    ELSE SetEach(IF Head(emails).id # 0 THEN MapSet(map, Head(emails)) ELSE map,
                 Tail(emails))

\* mergeFetchedEmails: the extended emails first, then the initial ones
mergeFetchedEmails(initialEmails, extendedEmails) ==
    SetEach(SetEach(<<>>, extendedEmails), initialEmails)

\* parseEmail on a fetched email: the id, and the code of the subject or 'unknown'
parseEmail(e) == [id |-> e.id, emailGroupId |-> mailbox[e.msg].subj]

\* isRelevantEmail: the modelled messages are no spam and carry no allowlist
\* keyword, so a message is relevant exactly when its subject carries a code
isRelevantEmail(pe) == pe.emailGroupId # Unknown

\* parseFetchedEmails: the relevant parsed emails
parseFetchedEmails(fetched) ==
    {pe \in {parseEmail(fetched[i]) : i \in 1..Len(fetched)} : isRelevantEmail(pe)}

\* groupEmailsByEmailGroup: the codes of the groups; an email without a code
\* of its own is grouped by the code of its subject alone (dbData has no
\* text), which it does not have, so it joins no group
groupEmailsByEmailGroup(parsed) == {pe.emailGroupId : pe \in parsed} \ {Unknown}

\* a saveOnlyNewEmails that does not look for the id among the persisted emails
AllEmailIds(parsed, c) == {pe.id : pe \in {q \in parsed : q.emailGroupId = c}}

\* saveOnlyNewEmails: the ids of the parsed emails of group c that are not
\* persisted yet (getEmailByMessageId finds none)
NewEmailIds(parsed, c) ==
    {pe.id : pe \in {q \in parsed : q.emailGroupId = c}} \ {de[1] : de \in dbEmails}

\* processSingleEmailGroup on every group: a group that is missing is created
\* with updatedAt = new Date(); updateGroupTimestamp sets updatedAt = new Date()
\* when at least one new email was saved
GroupsAfter(groups, parsed) ==
    [c \in Codes |->
        IF c \in groups /\ (dbGroups[c] = 0 \/ NewEmailIds(parsed, c) # {})
        THEN clock ELSE dbGroups[c]]

EmailsAfter(groups, parsed) ==
    dbEmails \cup UNION {{<<id, c>> : id \in NewEmailIds(parsed, c)} : c \in groups}

\* syncAllEmails: getGroupedEmailGroups, then processAllEmailGroups; the
\* writes of the sweep carry the date of the sweep, and whatever comes after
\* the sweep comes at a later date
Sweep ==
    /\ Len(sweepLog) < MaxSweeps
    /\ LET initial == fetchEmailsFilteredByEmailGroupId(genCount)
           targets == targetEmailGroupIds(initial.emails)
           extended == fetchExtendedEmails(targets, 1, initial.gen)
           merged == mergeFetchedEmails(initial.emails, extended.emails)
           parsed == parseFetchedEmails(merged)
           groups == groupEmailsByEmailGroup(parsed)
       IN  /\ dbGroups' = GroupsAfter(groups, parsed)
           /\ dbEmails' = EmailsAfter(groups, parsed)
           /\ genCount' = extended.gen
           /\ sweepLog' = Append(sweepLog,
                  [initial |-> initial.emails, extended |-> extended.emails,
                   merged |-> merged,
                   newEmails |-> Cardinality(dbEmails') - Cardinality(dbEmails),
                   dbGroups |-> dbGroups', dbEmails |-> dbEmails'])
    /\ clock' = clock + 1
    /\ UNCHANGED mailbox
    /\ UNCHANGED <<lockVars, connVars, groupingVars, storeVars, fetchVars, cleanupVars>>

\* any mailbox of MaxMessages messages, nothing persisted
SyncInit ==
    /\ LockIdle /\ ConnIdle /\ StoreIdle /\ GroupingIdle
    /\ mailbox \in [1..MaxMessages -> Messages] /\ DbEmpty

SyncNext == Sweep

\* full sweeps, one after the other, over an unchanged mailbox
SyncSpec == SyncInit /\ [][SyncNext]_vars

\* ------------------------------------------------------------------------
\* Properties of the full sweep
\* ------------------------------------------------------------------------

\* C4: a second full sweep over the same date range and an unchanged mailbox
\* leaves the persisted state as the first left it: the same groups with the
\* same updatedAt, and 0 newly saved messages
C4_SecondSweepChangesNothing ==
    \A n \in 2..Len(sweepLog) :
        /\ sweepLog[n].newEmails = 0
        /\ sweepLog[n].dbGroups = sweepLog[n - 1].dbGroups

Ids(emails) == {emails[i].id : i \in 1..Len(emails)}

\* C5: the merge of the initial and the extended fetch holds exactly one entry
\* for every message id of either fetch: no id twice, none left out, none added
C5_MergeIsUnionById ==
    \A n \in 1..Len(sweepLog) :
        LET m == sweepLog[n].merged
        IN  /\ \A i, j \in 1..Len(m) : m[i].id = m[j].id => i = j
            /\ Ids(m) = Ids(sweepLog[n].initial) \cup Ids(sweepLog[n].extended)

\* a sweep merged an id fetched twice with an id of the initial fetch alone
\* and an id of the extended fetch alone
C5_Witness ==
    \E n \in 1..Len(sweepLog) :
        /\ Ids(sweepLog[n].initial) \cap Ids(sweepLog[n].extended) # {}
        /\ Ids(sweepLog[n].initial) \ Ids(sweepLog[n].extended) # {}
        /\ Ids(sweepLog[n].extended) \ Ids(sweepLog[n].initial) # {}
        /\ Len(sweepLog[n].merged) = 3

\* C22: when the same message id occurs in both the initial fetch and the
\* extended fetch, the merged set keeps the entry from the extended fetch
C22_MergeKeepsExtendedEntry ==
    \A n \in 1..Len(sweepLog) :
        LET m == sweepLog[n].merged
        IN  \A i \in 1..Len(m) :
                m[i].id \in Ids(sweepLog[n].initial) \cap Ids(sweepLog[n].extended)
                    => m[i].src = "extended"

\* ------------------------------------------------------------------------
\* Full sweep with errors of the persistence layer
\* ------------------------------------------------------------------------

\* the number of items of one sweep whose persistence throws
MaxFailures == 2

\* processAllEmailGroups at its start: the persisted groups and emails, its
\* counters, and whether an error has left the loop
SyncProgress ==
    [groups |-> dbGroups, emails |-> dbEmails, created |-> 0, updated |-> 0,
     newEmails |-> 0, failed |-> FALSE]

\* a loop over the groups without the try/catch around its body
GroupErrorRethrown(st) == [st EXCEPT !.failed = TRUE]

\* catch (error) { logger.error(...) } in the loop of processAllEmailGroups
GroupErrorCaught(st) == st

\* processSingleEmailGroup for group c: saveEmailGroupWithSummary creates the
\* group when it is missing, saveOnlyNewEmails saves the emails of the group
\* that are not persisted, skips those whose save throws (failedIds) and moves
\* updatedAt when it saved at least one
processSingleEmailGroup(st, parsed, c, failedIds) ==
    LET created == st.groups[c] = 0
        saved == NewEmailIds(parsed, c) \ failedIds
    IN  [st EXCEPT !.groups[c] = IF created \/ saved # {} THEN clock ELSE @,
                   !.emails = @ \cup {<<id, c>> : id \in saved},
                   !.created = IF created THEN @ + 1 ELSE @,
                   !.updated = IF created THEN @ ELSE @ + 1,
                   !.newEmails = @ + Cardinality(saved)]

\* the loop of processAllEmailGroups over emailGroups; saveEmailGroupWithSummary
\* throws for the groups in failedGroups
RECURSIVE processAllEmailGroups(_, _, _, _, _)
processAllEmailGroups(st, emailGroups, parsed, failedGroups, failedIds) ==
    IF emailGroups = <<>> \/ st.failed THEN st
    ELSE processAllEmailGroups(
             IF Head(emailGroups) \in failedGroups
             THEN GroupErrorCaught(st)
             ELSE processSingleEmailGroup(st, parsed, Head(emailGroups), failedIds),
             Tail(emailGroups), parsed, failedGroups, failedIds)

\* syncAllEmails while the persistence layer throws for some groups and for
\* some emails
SweepWithErrors ==
    /\ Len(sweepLog) < MaxSweeps
    /\ LET initial == fetchEmailsFilteredByEmailGroupId(genCount)
           targets == targetEmailGroupIds(initial.emails)
           extended == fetchExtendedEmails(targets, 1, initial.gen)
           merged == mergeFetchedEmails(initial.emails, extended.emails)
           parsed == parseFetchedEmails(merged)
           groups == groupEmailsByEmailGroup(parsed)
           emailGroups == SelectSeq(CodeOrder, LAMBDA c : c \in groups)
       IN  \E failedGroups \in SUBSET groups, failedIds \in SUBSET {pe.id : pe \in parsed} :
               /\ Cardinality(failedGroups) + Cardinality(failedIds) <= MaxFailures
               /\ LET st == processAllEmailGroups(SyncProgress, emailGroups, parsed,
                                               failedGroups, failedIds)
                 IN  /\ dbGroups' = st.groups
                     /\ dbEmails' = st.emails
                     /\ genCount' = extended.gen
                     /\ sweepLog' = Append(sweepLog,
                            [initial |-> initial.emails, extended |-> extended.emails,
                             merged |-> merged,
                             newEmails |-> Cardinality(dbEmails') - Cardinality(dbEmails),
                             dbGroups |-> dbGroups', dbEmails |-> dbEmails',
                             parsed |-> parsed, groups |-> groups,
                             failedGroups |-> failedGroups, failedIds |-> failedIds,
                             before |-> [groups |-> dbGroups, emails |-> dbEmails],
                             result |-> [status |-> IF st.failed THEN "failed" ELSE "returned",
                                         created |-> st.created, updated |-> st.updated,
                                         newEmails |-> st.newEmails]])
    /\ clock' = clock + 1
    /\ UNCHANGED mailbox
    /\ UNCHANGED <<lockVars, connVars, groupingVars, storeVars, fetchVars, cleanupVars>>

FaultySyncNext == SweepWithErrors

\* full sweeps of any mailbox under errors of the persistence layer
FaultySyncSpec == SyncInit /\ [][FaultySyncNext]_vars

\* C20: in a full sweep an error raised while creating or saving one group, or
\* one message of it, is caught and only that item is skipped: every other
\* group is processed, every other message of it is saved, and the sync returns
\* its created / updated / new-message counts
C20_ItemErrorsAreSkipped ==
    \A n \in 1..Len(sweepLog) :
        LET L == sweepLog[n]
            processed == L.groups \ L.failedGroups
        IN  /\ L.result.status = "returned"
            /\ \A c \in processed :
                  /\ L.dbGroups[c] # 0
                  /\ \A pe \in L.parsed :
                        (pe.emailGroupId = c /\ pe.id \notin L.failedIds)
                            => \E de \in L.dbEmails : de[1] = pe.id
            /\ \A c \in L.failedGroups : L.dbGroups[c] = L.before.groups[c]
            /\ \A de \in L.dbEmails \ L.before.emails :
                  de[1] \notin L.failedIds /\ de[2] \in processed
            /\ L.result.created = Cardinality({c \in processed : L.before.groups[c] = 0})
            /\ L.result.updated = Cardinality({c \in processed : L.before.groups[c] # 0})
            /\ L.result.newEmails = Cardinality(L.dbEmails \ L.before.emails)

\* a sweep in which the first group failed and the second one was created with
\* a new message, and a sweep in which the save of a message failed
C20_Witness ==
    /\ \E n \in 1..Len(sweepLog) :
          /\ CodeOrder[1] \in sweepLog[n].failedGroups
          /\ CodeOrder[2] \in sweepLog[n].groups \ sweepLog[n].failedGroups
          /\ sweepLog[n].result.created = 1
          /\ sweepLog[n].result.newEmails >= 1
    /\ \E n \in 1..Len(sweepLog) :
          \E pe \in sweepLog[n].parsed :
              /\ pe.id \in sweepLog[n].failedIds
              /\ pe.emailGroupId \notin sweepLog[n].failedGroups

PersistedIds(emails) == {de[1] : de \in emails}

\* C23: after a full sweep without per-item errors, every message the grouper
\* placed in a group whose id was not persisted before is persisted under that
\* group, and no message already persisted by id is written again
C23_NewMessagesPersistedOnce ==
    \A n \in 1..Len(sweepLog) :
        LET L == sweepLog[n]
            placedNew == {pe \in L.parsed : /\ pe.emailGroupId \in L.groups
                                            /\ pe.id \notin PersistedIds(L.before.emails)}
        IN  (L.failedGroups = {} /\ L.failedIds = {}) =>
                /\ \A pe \in placedNew : <<pe.id, pe.emailGroupId>> \in L.dbEmails
                /\ \A de \in L.dbEmails \ L.before.emails :
                       de[1] \notin PersistedIds(L.before.emails)
                /\ L.result.newEmails = Cardinality(placedNew)

\* a sweep without errors that found one message persisted and saved another
C23_Witness ==
    \E n \in 1..Len(sweepLog) :
        /\ sweepLog[n].failedGroups = {} /\ sweepLog[n].failedIds = {}
        /\ \E pe \in sweepLog[n].parsed : pe.id \in PersistedIds(sweepLog[n].before.emails)
        /\ \E pe \in sweepLog[n].parsed :
               /\ pe.id \notin PersistedIds(sweepLog[n].before.emails)
               /\ <<pe.id, pe.emailGroupId>> \in sweepLog[n].dbEmails

\* ------------------------------------------------------------------------
\* Full sweep with errors of the searches
\* ------------------------------------------------------------------------

\* fetchExtendedEmails while fetchEmailsByEmailGroupId rejects for the codes in
\* failedSearches: the catch inside the loop logs the error and the loop goes
\* on with the next code
RECURSIVE fetchExtendedEmailsCatching(_, _, _, _)
fetchExtendedEmailsCatching(cs, k, g, failedSearches) ==
    IF k > Len(CodeOrder) THEN [emails |-> <<>>, gen |-> g]
    ELSE IF CodeOrder[k] \notin cs \/ CodeOrder[k] \in failedSearches
         THEN fetchExtendedEmailsCatching(cs, k + 1, g, failedSearches)
    ELSE LET one == fetchEmailsByEmailGroupId(CodeOrder[k], g)
             rest == fetchExtendedEmailsCatching(cs, k + 1, one.gen, failedSearches)
         IN  [emails |-> one.emails \o rest.emails, gen |-> rest.gen]

\* syncAllEmails when connect() or the initial search rejects: the finally of
\* getGroupedEmailGroups disconnects, the error leaves syncAllEmails, nothing
\* is persisted
SweepFails ==
    /\ Len(sweepLog) < MaxSweeps
    /\ sweepLog' = Append(sweepLog,
           [initial |-> <<>>, extended |-> <<>>, merged |-> <<>>, newEmails |-> 0,
            dbGroups |-> dbGroups, dbEmails |-> dbEmails,
            initialFailed |-> TRUE, targets |-> {}, failedSearches |-> {},
            result |-> [status |-> "failed", created |-> 0, updated |-> 0,
                        newEmails |-> 0]])
    /\ clock' = clock + 1
    /\ UNCHANGED <<mailbox, dbGroups, dbEmails, genCount>>
    /\ UNCHANGED <<lockVars, connVars, groupingVars, storeVars, fetchVars, cleanupVars>>

\* syncAllEmails when the extended searches of the codes in failedSearches
\* reject
SweepWithSearchErrors ==
    /\ Len(sweepLog) < MaxSweeps
    /\ LET initial == fetchEmailsFilteredByEmailGroupId(genCount)
           targets == targetEmailGroupIds(initial.emails)
       IN  \E failedSearches \in SUBSET targets :
               LET extended == fetchExtendedEmailsCatching(targets, 1, initial.gen,
                                                           failedSearches)
                   merged == mergeFetchedEmails(initial.emails, extended.emails)
                   parsed == parseFetchedEmails(merged)
                   groups == groupEmailsByEmailGroup(parsed)
                   emailGroups == SelectSeq(CodeOrder, LAMBDA c : c \in groups)
                   st == processAllEmailGroups(SyncProgress, emailGroups, parsed, {}, {})
               IN  /\ dbGroups' = st.groups
                   /\ dbEmails' = st.emails
                   /\ genCount' = extended.gen
                   /\ sweepLog' = Append(sweepLog,
                          [initial |-> initial.emails, extended |-> extended.emails,
                           merged |-> merged,
                           newEmails |-> Cardinality(dbEmails') - Cardinality(dbEmails),
                           dbGroups |-> dbGroups', dbEmails |-> dbEmails',
                           initialFailed |-> FALSE, targets |-> targets,
                           failedSearches |-> failedSearches,
                           result |-> [status |-> "returned", created |-> st.created,
                                       updated |-> st.updated,
                                       newEmails |-> st.newEmails]])
    /\ clock' = clock + 1
    /\ UNCHANGED mailbox
    /\ UNCHANGED <<lockVars, connVars, groupingVars, storeVars, fetchVars, cleanupVars>>

SearchFaultNext == SweepFails \/ SweepWithSearchErrors

\* full sweeps of any mailbox while searches of the mail server fail
SearchFaultSpec == SyncInit /\ [][SearchFaultNext]_vars

\* C21: every connection-level or search-level failure during a sync (the
\* initial date-ranged search or any extended per-code search) makes the sync
\* fail for its caller
C21_SearchFailurePropagates ==
    \A n \in 1..Len(sweepLog) :
        (sweepLog[n].initialFailed \/ sweepLog[n].failedSearches # {})
            => sweepLog[n].result.status = "failed"

\* ------------------------------------------------------------------------
\* Group identifiers: normalizeEmailGroupId, findBestFuzzyMatch
\* A string is the sequence of its characters.
\* ------------------------------------------------------------------------

MaxRawLen == 9
MaxNormalize == 2

\* the characters of the modelled ids: two digits and one character that is no digit
Digits == {"1", "2"}

Chars == Digits \cup {"x"}

\* the quantifier bounds of /\d{6,8}/
MIN_DIGITS == 6

MAX_DIGITS == 8

\* null, which is no string
Null == <<"null">>

\* every string of n characters of C
StringsOf(C, n) == [1..n -> C]

RawIds == UNION {StringsOf(Chars, n) : n \in 0..MaxRawLen}

\* how many digits /\d{6,8}/ can take at position p of id: the digits from p on,
\* at most MAX_DIGITS of them
DigitRun(id, p) ==
    CHOOSE n \in 0..MAX_DIGITS :
        /\ p + n - 1 <= Len(id)
        /\ \A i \in p..(p + n - 1) : id[i] \in Digits
        /\ n = MAX_DIGITS \/ p + n > Len(id) \/ id[p + n] \notin Digits

\* a match that leaves out the digit it starts with
MatchWithoutFirstDigit(id) ==
    LET starts == {p \in 1..Len(id) : DigitRun(id, p) >= MIN_DIGITS}
    IN  IF starts = {} THEN Null
        ELSE LET p == CHOOSE q \in starts : \A o \in starts : q <= o
             IN  SubSeq(id, p + 1, p + DigitRun(id, p) - 1)

\* id.match(/\d{6,8}/): the leftmost match, with as many digits as it can take
Match(id) ==
    LET starts == {p \in 1..Len(id) : DigitRun(id, p) >= MIN_DIGITS}
    IN  IF starts = {} THEN Null
        ELSE LET p == CHOOSE q \in starts : \A o \in starts : q <= o
             IN  SubSeq(id, p, p + DigitRun(id, p) - 1)

\* EmailGroupId.normalizeEmailGroupId
normalizeEmailGroupId(id) ==
    LET match == Match(id)
    IN  IF id = <<>> THEN id
        ELSE IF match # Null THEN match ELSE id

\* normalizeEmailGroupId is called on rawId, then on the result of the last call
NormalizeEmailGroupId ==
    /\ Len(normalized) < MaxNormalize
    /\ normalized' = Append(normalized,
           normalizeEmailGroupId(IF normalized = <<>> THEN rawId
                                 ELSE normalized[Len(normalized)]))
    /\ UNCHANGED <<rawId, existingIds, emailsForGrouping, fuzzyLog, groupLog, parsedEmail, relevantLog>>
    /\ UNCHANGED <<lockVars, connVars, syncVars, storeVars, fetchVars, cleanupVars>>

NormalizeInit ==
    /\ LockIdle /\ ConnIdle /\ StoreIdle /\ SyncIdle
    /\ rawId \in RawIds
    /\ existingIds = <<>>
    /\ emailsForGrouping = <<>>
    /\ normalized = <<>>
    /\ fuzzyLog = <<>>
    /\ groupLog = <<>>
    /\ parsedEmail = <<>>
    /\ relevantLog = <<>>

NormalizeNext == NormalizeEmailGroupId

\* normalizeEmailGroupId applied repeatedly to every raw id of the bound
NormalizeSpec == NormalizeInit /\ [][NormalizeNext]_vars

\* C16: normalizeEmailGroupId is idempotent: normalizing the result of
\* normalizeEmailGroupId(c) gives that result again, for every raw code c
C16_NormalizeIdempotent ==
    \A n \in 2..Len(normalized) : normalized[n] = normalized[n - 1]

\* a raw id with more than MAX_DIGITS digits in a row after a character that is
\* no digit was normalized twice, and the first call changed it
C16_Witness ==
    /\ Len(normalized) = 2
    /\ normalized[1] # rawId
    /\ Len(normalized[1]) = MAX_DIGITS
    /\ rawId[1] \notin Digits

\* ------------------------------------------------------------------------
\* findBestFuzzyMatch.  A similarity is the fraction num/den: the quotients the
\* code computes in floating point are compared here as exact fractions (for
\* strings this short, distinct fractions are distinct doubles, and
\* 1 - 1/5 is the double 0.8).
\* ------------------------------------------------------------------------

MaxIdLen == 6
MaxTwos == 2
MaxKnown == 2

\* the default similarityThreshold, and getSimilarityThreshold(): 0.8
SIMILARITY_THRESHOLD == [num |-> 4, den |-> 5]

\* a > b and a >= b on fractions
Greater(a, b) == a.num * b.den > b.num * a.den

AtLeast(a, b) == a.num * b.den >= b.num * a.den

Min3(a, b, c) == IF a <= b /\ a <= c THEN a ELSE IF b <= c THEN b ELSE c

\* row i of the matrix dp, filled from column 0 on: cur holds dp[i][0..Len(cur)-1],
\* prev is row i - 1 and ch is str1[i - 1]
RECURSIVE LevRow(_, _, _, _)
LevRow(prev, ch, str2, cur) ==
    IF Len(cur) = Len(str2) + 1 THEN cur
    ELSE LET j == Len(cur)
             cost == IF ch = str2[j] THEN 0 ELSE 1
         IN  LevRow(prev, ch, str2,
                    Append(cur, Min3(prev[j + 1] + 1, cur[j] + 1, prev[j] + cost)))

\* the rows i..m of the matrix dp, given row i - 1
RECURSIVE LevRows(_, _, _, _)
LevRows(str1, str2, i, prev) ==
    IF i > Len(str1) THEN prev
    ELSE LevRows(str1, str2, i + 1, LevRow(prev, str1[i], str2, <<i>>))

\* EmailGroupId.levenshteinDistance: dp[m][n]
levenshteinDistance(str1, str2) ==
    LevRows(str1, str2, 1, [j \in 1..(Len(str2) + 1) |-> j - 1])[Len(str2) + 1]

\* EmailGroupId.calculateSimilarity
calculateSimilarity(str1, str2) ==
    IF str1 = str2 THEN [num |-> 1, den |-> 1]
    ELSE IF Len(str1) = 0 \/ Len(str2) = 0 THEN [num |-> 0, den |-> 1]
    ELSE LET maxLength == IF Len(str1) >= Len(str2) THEN Len(str1) ELSE Len(str2)
         IN  [num |-> maxLength - levenshteinDistance(str1, str2), den |-> maxLength]

\* a loop that also takes a candidate whose similarity equals the best score
ScoreImprovesOrTies(similarity, bestScore, similarityThreshold) ==
    AtLeast(similarity, bestScore) /\ AtLeast(similarity, similarityThreshold)

\* the condition of the loop of findBestFuzzyMatch
ScoreImproves(similarity, bestScore, similarityThreshold) ==
    Greater(similarity, bestScore) /\ AtLeast(similarity, similarityThreshold)

\* the loop of findBestFuzzyMatch from existingIds[i] on
RECURSIVE BestMatchLoop(_, _, _, _, _, _)
BestMatchLoop(normalizedId, ids, similarityThreshold, i, bestMatch, bestScore) ==
    IF i > Len(ids) THEN bestMatch
    ELSE LET similarity == calculateSimilarity(normalizedId, ids[i])
         IN  IF ScoreImproves(similarity, bestScore, similarityThreshold)
             THEN BestMatchLoop(normalizedId, ids, similarityThreshold, i + 1,
                                ids[i], similarity)
             ELSE BestMatchLoop(normalizedId, ids, similarityThreshold, i + 1,
                                bestMatch, bestScore)

\* EmailGroupId.findBestFuzzyMatch
findBestFuzzyMatch(id, ids, similarityThreshold) ==
    LET normalizedId == normalizeEmailGroupId(id)
    IN  IF \E i \in 1..Len(ids) : ids[i] = normalizedId
        THEN normalizedId
        ELSE BestMatchLoop(normalizedId, ids, similarityThreshold, 1, Null,
                           [num |-> 0, den |-> 1])

\* digit strings of MaxIdLen - 1 or MaxIdLen characters with at most MaxTwos "2"
FuzzyIds ==
    {id \in UNION {StringsOf(Digits, n) : n \in (MaxIdLen - 1)..MaxIdLen} :
        Cardinality({i \in 1..Len(id) : id[i] = "2"}) <= MaxTwos}

\* the ids handed to findBestFuzzyMatch: those, and those behind a non-digit
RawFuzzyIds == FuzzyIds \cup {<<"x">> \o id : id \in FuzzyIds}

\* findBestFuzzyMatch(rawId, existingIds) is called with the default threshold
FindBestFuzzyMatch ==
    /\ fuzzyLog = <<>>
    /\ fuzzyLog' = <<findBestFuzzyMatch(rawId, existingIds, SIMILARITY_THRESHOLD)>>
    /\ UNCHANGED <<rawId, existingIds, emailsForGrouping, normalized, groupLog, parsedEmail, relevantLog>>
    /\ UNCHANGED <<lockVars, connVars, syncVars, storeVars, fetchVars, cleanupVars>>

FuzzyInit ==
    /\ LockIdle /\ ConnIdle /\ StoreIdle /\ SyncIdle
    /\ rawId \in RawFuzzyIds
    /\ existingIds \in UNION {[1..n -> FuzzyIds] : n \in 0..MaxKnown}
    /\ emailsForGrouping = <<>>
    /\ normalized = <<>>
    /\ fuzzyLog = <<>>
    /\ groupLog = <<>>
    /\ parsedEmail = <<>>
    /\ relevantLog = <<>>

FuzzyNext == FindBestFuzzyMatch

\* findBestFuzzyMatch on every id and every list of known ids of the bound
FuzzySpec == FuzzyInit /\ [][FuzzyNext]_vars

\* the similarity 1 - distance/max(len) of two strings that are not both empty
EditSimilarity(a, b) ==
    LET maxLength == IF Len(a) >= Len(b) THEN Len(a) ELSE Len(b)
    IN  [num |-> maxLength - levenshteinDistance(a, b), den |-> maxLength]

\* the known ids whose similarity to id is at or above 0.8
AtThreshold(id) ==
    {i \in 1..Len(existingIds) :
        AtLeast(EditSimilarity(id, existingIds[i]), SIMILARITY_THRESHOLD)}

\* C15: findBestFuzzyMatch(code, knownCodes, 0.8) returns the normalized code
\* when it is among the known codes; otherwise the first known code, in the
\* order of knownCodes, that attains the maximum similarity among those whose
\* similarity is at or above 0.8; and null when no known code reaches 0.8
C15_FirstBestAtOrAboveThreshold ==
    fuzzyLog # <<>> =>
        LET id == normalizeEmailGroupId(rawId)
            sim(i) == EditSimilarity(id, existingIds[i])
        IN  IF \E i \in 1..Len(existingIds) : existingIds[i] = id
            THEN fuzzyLog[1] = id
            ELSE IF AtThreshold(id) = {}
            THEN fuzzyLog[1] = Null
            ELSE \E i \in AtThreshold(id) :
                    /\ fuzzyLog[1] = existingIds[i]
                    /\ \A j \in AtThreshold(id) : ~ Greater(sim(j), sim(i))
                    /\ \A j \in AtThreshold(id) : j < i => Greater(sim(i), sim(j))

\* a call returned the first of two different known ids that both have
\* similarity exactly 0.8 to the id
C15_Witness ==
    /\ fuzzyLog # <<>>
    /\ Len(existingIds) = 2
    /\ existingIds[1] # existingIds[2]
    /\ fuzzyLog[1] = existingIds[1]
    /\ \A i \in 1..2 :
          EditSimilarity(normalizeEmailGroupId(rawId), existingIds[i]) = SIMILARITY_THRESHOLD

\* ------------------------------------------------------------------------
\* EmailGrouperService.groupEmailsByEmailGroup
\* An email is its emailGroupId (the code the parser took from the subject, or
\* 'unknown'), the code extractEmailGroupIdFromContent finds in its subject and
\* text (null: none) and its date.  A Map is the sequence of its entries in
\* insertion order; the emails of an entry are positions of the input.
\* ------------------------------------------------------------------------

MaxEmails == 4
MaxDate == 2

\* the emailGroupId 'unknown', which the grouper never takes apart
UnknownId == <<"unknown">>

\* the string of n characters ch
Repeat(ch, n) == [i \in 1..n |-> ch]

\* codes as extractEmailGroupIdFromText returns them: 6 to 8 digits
GroupIds == {Repeat("1", n) : n \in MIN_DIGITS..MAX_DIGITS}

\* values of emailGroupId: a code, a code inside a longer token, a run of digits
\* that is too short, or 'unknown'
RawGroupIds ==
    GroupIds \cup {<<"x">> \o Repeat("1", MIN_DIGITS), Repeat("1", MIN_DIGITS - 1), UnknownId}

\* an email with a code in its subject has that code as the first one of its
\* content; the content of the others has any code or none
GroupingEmails ==
    {e \in [emailGroupId : RawGroupIds, content : GroupIds \cup {Null}, date : 1..MaxDate] :
        e.emailGroupId # UnknownId => e.content = Null}

\* !email.emailGroupId || email.emailGroupId === 'unknown'
Ungrouped(e) == e.emailGroupId = <<>> \/ e.emailGroupId = UnknownId

\* Array.from(map.keys())
MapKeys(map) == [k \in 1..Len(map) |-> map[k].emailGroupId]

\* new Map()
NewMap == <<>>

\* map.get(key).push(email) after map.set(key, []) when the key is new
MapPush(map, key, i) ==
    IF \E k \in 1..Len(map) : map[k].emailGroupId = key
    THEN [k \in 1..Len(map) |->
             IF map[k].emailGroupId = key
             THEN [map[k] EXCEPT !.emails = Append(@, i)]
             ELSE map[k]]
    ELSE Append(map, [emailGroupId |-> key, emails |-> <<i>>])

\* !normalizedId || normalizedId.length < 6
InvalidId(normalizedId) == normalizedId = <<>> \/ Len(normalizedId) < 6

\* normalizeEmailGroups: the forEach from emails[i] on
RECURSIVE normalizeEmailGroups(_, _, _)
normalizeEmailGroups(es, i, map) ==
    IF i > Len(es) THEN map
    ELSE LET normalizedId == normalizeEmailGroupId(es[i].emailGroupId)
         IN  IF Ungrouped(es[i]) \/ InvalidId(normalizedId)
             THEN normalizeEmailGroups(es, i + 1, map)
             ELSE normalizeEmailGroups(es, i + 1, MapPush(map, normalizedId, i))

\* assignEmailToGroup
assignEmailToGroup(i, potentialId, map) ==
    LET bestMatch == findBestFuzzyMatch(potentialId, MapKeys(map), SIMILARITY_THRESHOLD)
    IN  IF bestMatch # Null /\ bestMatch # <<>>
        THEN MapPush(map, bestMatch, i)
        ELSE Append(map, [emailGroupId |-> potentialId, emails |-> <<i>>])

\* processUngroupedEmails: the forEach over the ungrouped emails from emails[i] on
RECURSIVE processUngroupedEmails(_, _, _)
processUngroupedEmails(es, i, map) ==
    IF i > Len(es) THEN map
    ELSE LET normalizedPotentialId == normalizeEmailGroupId(es[i].content)
         IN  IF ~ Ungrouped(es[i]) \/ es[i].content = Null
                   \/ InvalidId(normalizedPotentialId)
             THEN processUngroupedEmails(es, i + 1, map)
             ELSE processUngroupedEmails(es, i + 1,
                      assignEmailToGroup(i, normalizedPotentialId, map))

\* createEmailGroup: createdAt and updatedAt are the first and the last date
createEmailGroup(es, entry) ==
    LET dates == {es[entry.emails[m]].date : m \in 1..Len(entry.emails)}
    IN  [emailGroupId |-> entry.emailGroupId,
         createdAt |-> CHOOSE d \in dates : \A o \in dates : d <= o,
         updatedAt |-> CHOOSE d \in dates : \A o \in dates : d >= o]

\* group g put into the sorted list gs behind the groups that are not older
InsertSorted(gs, g) ==
    LET before == Cardinality({k \in 1..Len(gs) : gs[k].updatedAt >= g.updatedAt})
    IN  SubSeq(gs, 1, before) \o <<g>> \o SubSeq(gs, before + 1, Len(gs))

\* createFinalEmailGroups: one group per entry, sorted by updatedAt descending
\* (Array.prototype.sort is stable)
RECURSIVE createFinalEmailGroups(_, _, _, _)
createFinalEmailGroups(es, map, k, gs) ==
    IF k > Len(map) THEN gs
    ELSE createFinalEmailGroups(es, map, k + 1, InsertSorted(gs, createEmailGroup(es, map[k])))

\* the Map normalizedGroups at the end of groupEmailsByEmailGroup(es)
Buckets(es) == processUngroupedEmails(es, 1, normalizeEmailGroups(es, 1, NewMap))

\* groupEmailsByEmailGroup is called on emailsForGrouping
GroupEmailsByEmailGroup ==
    /\ groupLog = <<>>
    /\ LET normalizedGroups == Buckets(emailsForGrouping)
       IN  groupLog' = <<[buckets |-> normalizedGroups,
                          emailGroups |-> createFinalEmailGroups(emailsForGrouping,
                                              normalizedGroups, 1, <<>>)]>>
    /\ UNCHANGED <<rawId, existingIds, emailsForGrouping, normalized, fuzzyLog, parsedEmail, relevantLog>>
    /\ UNCHANGED <<lockVars, connVars, syncVars, storeVars, fetchVars, cleanupVars>>

GrouperInit ==
    /\ LockIdle /\ ConnIdle /\ StoreIdle /\ SyncIdle
    /\ rawId = <<>>
    /\ existingIds = <<>>
    /\ emailsForGrouping \in UNION {[1..n -> GroupingEmails] : n \in 0..MaxEmails}
    /\ normalized = <<>>
    /\ fuzzyLog = <<>>
    /\ groupLog = <<>>
    /\ parsedEmail = <<>>
    /\ relevantLog = <<>>

GrouperNext == GroupEmailsByEmailGroup

\* groupEmailsByEmailGroup on every list of emails of the bound
GrouperSpec == GrouperInit /\ [][GrouperNext]_vars

\* the canonical code of input message i: its emailGroupId normalized, or for a
\* message without one the normalized code of its content; null when it has none
CanonicalCode(i) ==
    LET e == emailsForGrouping[i]
        raw == IF Ungrouped(e) THEN e.content ELSE e.emailGroupId
    IN  IF raw = Null \/ InvalidId(normalizeEmailGroupId(raw)) THEN Null
        ELSE normalizeEmailGroupId(raw)

\* messages i and j are in one bucket of the Map
SameGroup(map, i, j) ==
    \E k \in 1..Len(map) :
        /\ \E m \in 1..Len(map[k].emails) : map[k].emails[m] = i
        /\ \E m \in 1..Len(map[k].emails) : map[k].emails[m] = j

\* C13: the group codes of the output of groupEmailsByEmailGroup are canonical
\* and pairwise distinct, and two input messages whose raw codes normalize to
\* the same canonical code, or whose canonical codes have a similarity above
\* 0.8, are members of the same group
C13_SimilarCodesShareGroup ==
    groupLog # <<>> =>
        LET map == groupLog[1].buckets
            coded == {i \in 1..Len(emailsForGrouping) : CanonicalCode(i) # Null}
        IN  /\ \A k \in 1..Len(map) :
                  /\ Len(map[k].emailGroupId) \in MIN_DIGITS..MAX_DIGITS
                  /\ \A c \in 1..Len(map[k].emailGroupId) : map[k].emailGroupId[c] \in Digits
                  /\ \A o \in 1..Len(map) : map[o].emailGroupId = map[k].emailGroupId => o = k
            /\ {map[k].emailGroupId : k \in 1..Len(map)}
                   = {groupLog[1].emailGroups[k].emailGroupId :
                          k \in 1..Len(groupLog[1].emailGroups)}
            /\ \A i, j \in coded :
                  (\/ CanonicalCode(i) = CanonicalCode(j)
                   \/ Greater(EditSimilarity(CanonicalCode(i), CanonicalCode(j)),
                              SIMILARITY_THRESHOLD))
                      => SameGroup(map, i, j)

\* the buckets of a Map as a set: each code with the set of its messages, the
\* positions named through p
Assignment(map, p) ==
    {<<map[k].emailGroupId, {p[map[k].emails[m]] : m \in 1..Len(map[k].emails)}>> :
        k \in 1..Len(map)}

MaxTextLen == 2
MaxFromLen == 3

keywords == {<<"o">>, <<"G">>}

spamKeywords == {<<"s">>}

spamDomains == {<<"p">>}

\* the characters of subject and text, and of from
TextChars == {"o", "G", "g", "s"}

FromChars == {"@", "p", "u"}

\* String.prototype.toLowerCase
toLowerCase(str) == [i \in 1..Len(str) |-> IF str[i] = "G" THEN "g" ELSE str[i]]

\* String.prototype.includes
includes(str, kw) ==
    \E p \in 0..(Len(str) - Len(kw)) : SubSeq(str, p + 1, p + Len(kw)) = kw

\* EmailUtilsService.extractEmailDomain: email.split('@')[1] || ''
extractEmailDomain(email) ==
    LET ats == {p \in 1..Len(email) : email[p] = "@"}
    IN  IF ats = {} THEN <<>>
        ELSE LET first == CHOOSE p \in ats : \A o \in ats : p <= o
                 later == {p \in ats : p > first}
                 stop == IF later = {} THEN Len(email) + 1
                         ELSE CHOOSE p \in later : \A o \in later : p <= o
             IN  SubSeq(email, first + 1, stop - 1)

\* EmailUtilsService.isSpamDomain
isSpamDomain(domain) == \E spamDomain \in spamDomains : includes(domain, spamDomain)

\* EmailParserService.isSpamEmail
isSpamEmail(email) ==
    LET subject == toLowerCase(email.subject)
        from == toLowerCase(email.from)
        text == toLowerCase(email.text)
        hasSpamDomain == isSpamDomain(extractEmailDomain(from))
        hasSpamKeyword == \E keyword \in spamKeywords :
                              includes(subject, keyword) \/ includes(text, keyword)
    IN  hasSpamKeyword \/ hasSpamDomain

\* EmailParserService.isRelevantEmail
IsRelevantEmail(email) ==
    IF isSpamEmail(email) THEN FALSE
    ELSE LET subject == toLowerCase(email.subject)
             text == toLowerCase(email.text)
             hasKeyword == \E keyword \in keywords :
                               includes(subject, keyword) \/ includes(text, keyword)
             hasEmailGroupId == email.emailGroupId # <<>> /\ email.emailGroupId # UnknownId
         IN  hasKeyword \/ hasEmailGroupId

ParsedEmails ==
    [subject : UNION {StringsOf(TextChars, n) : n \in 0..MaxTextLen},
     text : UNION {StringsOf(TextChars, n) : n \in 0..MaxTextLen},
     from : UNION {StringsOf(FromChars, n) : n \in 0..MaxFromLen},
     emailGroupId : {<<>>, UnknownId, Repeat("1", MIN_DIGITS)}]

\* isRelevantEmail is called on parsedEmail
IsRelevant ==
    /\ relevantLog = <<>>
    /\ relevantLog' = <<IsRelevantEmail(parsedEmail)>>
    /\ UNCHANGED <<rawId, existingIds, emailsForGrouping, normalized, fuzzyLog, groupLog,
                   parsedEmail>>
    /\ UNCHANGED <<lockVars, connVars, syncVars, storeVars, fetchVars, cleanupVars>>

ParserInit ==
    /\ LockIdle /\ ConnIdle /\ StoreIdle /\ SyncIdle
    /\ rawId = <<>>
    /\ existingIds = <<>>
    /\ emailsForGrouping = <<>>
    /\ normalized = <<>>
    /\ fuzzyLog = <<>>
    /\ groupLog = <<>>
    /\ parsedEmail \in ParsedEmails
    /\ relevantLog = <<>>

ParserNext == IsRelevant

\* isRelevantEmail on every parsed email of the bound
ParserSpec == ParserInit /\ [][ParserNext]_vars

\* the message has keyword kw in its subject or its text, whatever the case of
\* the letters
MatchesKeyword(email, kw) ==
    \/ includes(toLowerCase(email.subject), toLowerCase(kw))
    \/ includes(toLowerCase(email.text), toLowerCase(kw))

HasGroupCode(email) == email.emailGroupId \notin {<<>>, UnknownId}

\* C17: isRelevantEmail returns false for every message that isSpamEmail
\* classifies as spam, whatever else the message matches; for a message that is
\* no spam it returns true exactly when the message matches an allowlist keyword
\* or has a group code other than 'unknown'
C17_SpamFirstThenKeywordOrCode ==
    relevantLog # <<>> =>
        IF isSpamEmail(parsedEmail) THEN relevantLog[1] = FALSE
        ELSE relevantLog[1] =
                 (\/ \E kw \in keywords : MatchesKeyword(parsedEmail, kw)
                  \/ HasGroupCode(parsedEmail))

\* ------------------------------------------------------------------------
\* EmailFetcherService.fetchEmailsWithAttachments, processSingleMessage
\* ------------------------------------------------------------------------

\* the most message numbers handed to one fetchEmailsWithAttachments call
MaxNumbers == 3

\* the number of fetchEmailsWithAttachments calls
MaxBulkFetches == 1

\* the promise executor of fetchEmailsWithAttachments(messageNumbers) with
\* messageNumbers.length = n: emails = [], processed = 0, imap.fetch(...)
NewBulkFetch(n, hasImap) ==
    [numbers |-> n,
     msgs |-> <<>>,
     emails |-> <<>>,
     processed |-> 0,
     stream |-> IF hasImap /\ n > 0 THEN "open" ELSE "none",
     promise |-> IF ~ hasImap THEN "rejected" ELSE IF n = 0 THEN "resolved" ELSE "pending"]

\* a sync calls fetchEmailsWithAttachments with n message numbers
StartBulkFetch(n, hasImap) ==
    /\ Len(bulkFetch) < MaxBulkFetches
    /\ bulkFetch' = Append(bulkFetch, NewBulkFetch(n, hasImap))
    /\ UNCHANGED <<lockVars, connVars, syncVars, groupingVars, storeVars, cleanupVars>>

\* the fetch emits 'message': the handler calls processSingleMessage and awaits
FetchMessage(b) ==
    /\ b \in 1..Len(bulkFetch)
    /\ bulkFetch[b].stream = "open"
    /\ Len(bulkFetch[b].msgs) < bulkFetch[b].numbers
    /\ bulkFetch' = [bulkFetch EXCEPT ![b].msgs = Append(@, "streaming")]
    /\ UNCHANGED <<lockVars, connVars, syncVars, groupingVars, storeVars, cleanupVars>>

\* message i emits 'end': simpleParser and processAttachments start
MessageEnd(b, i) ==
    /\ b \in 1..Len(bulkFetch)
    /\ i \in 1..Len(bulkFetch[b].msgs)
    /\ bulkFetch[b].msgs[i] = "streaming"
    /\ bulkFetch' = [bulkFetch EXCEPT ![b].msgs[i] = "parsing"]
    /\ UNCHANGED <<lockVars, connVars, syncVars, groupingVars, storeVars, cleanupVars>>

\* resolve(emails) on a promise: a settled promise stays as it is
SettleFetch(promise, res) == IF promise = "pending" THEN res ELSE promise

\* processSingleMessage of message i resolves, with the email (ok) or with
\* null after a parse error; the handler pushes the email, counts the message
\* and resolves when processed === messageNumbers.length
MessageProcessed(b, i, ok) ==
    /\ b \in 1..Len(bulkFetch)
    /\ i \in 1..Len(bulkFetch[b].msgs)
    /\ bulkFetch[b].msgs[i] = "parsing"
    /\ LET c == bulkFetch[b]
           processed == c.processed + 1
       IN  bulkFetch' = [bulkFetch EXCEPT
               ![b].msgs[i] = "processed",
               ![b].emails = IF ok THEN Append(@, i) ELSE @,
               ![b].processed = processed,
               ![b].promise = IF processed = c.numbers THEN SettleFetch(@, "resolved") ELSE @]
    /\ UNCHANGED <<lockVars, connVars, syncVars, groupingVars, storeVars, cleanupVars>>

\* the fetch emits 'error': reject(fetchErr)
FetchError(b) ==
    /\ b \in 1..Len(bulkFetch)
    /\ bulkFetch[b].stream = "open"
    /\ bulkFetch' = [bulkFetch EXCEPT ![b].stream = "error",
                                      ![b].promise = SettleFetch(@, "rejected")]
    /\ UNCHANGED <<lockVars, connVars, syncVars, groupingVars, storeVars, cleanupVars>>

\* the fetch emits 'end', after as many 'message' events as the server had
\* messages for the numbers requested: the handler logs
FetchEnd(b) ==
    /\ b \in 1..Len(bulkFetch)
    /\ bulkFetch[b].stream = "open"
    /\ bulkFetch' = [bulkFetch EXCEPT ![b].stream = "end"]
    /\ UNCHANGED <<lockVars, connVars, syncVars, groupingVars, storeVars, cleanupVars>>

BulkFetchNext ==
    \/ \E n \in 0..MaxNumbers, hasImap \in BOOLEAN : StartBulkFetch(n, hasImap)
    \/ \E b \in 1..MaxBulkFetches : FetchMessage(b)
    \/ \E b \in 1..MaxBulkFetches, i \in 1..MaxNumbers : MessageEnd(b, i)
    \/ \E b \in 1..MaxBulkFetches, i \in 1..MaxNumbers, ok \in BOOLEAN : MessageProcessed(b, i, ok)
    \/ \E b \in 1..MaxBulkFetches : FetchError(b)
    \/ \E b \in 1..MaxBulkFetches : FetchEnd(b)

\* every event that can happen does happen: the server delivers what it has,
\* messages end, the parser returns
BulkFetchSpec == ConnInit /\ [][BulkFetchNext]_vars /\ WF_vars(BulkFetchNext)

\* C29: every bulk fetch over a non-empty list of message numbers
\* eventually settles (resolved or rejected), also when messages fail to parse,
\* when fewer 'message' events arrive than numbers were requested, or when the
\* stream ends early
C29_BulkFetchSettles ==
    \A b \in 1..MaxBulkFetches :
        (Len(bulkFetch) >= b /\ bulkFetch[b].numbers > 0)
            ~> (Len(bulkFetch) >= b /\ bulkFetch[b].promise # "pending")

\* ------------------------------------------------------------------------
\* Persisted groups and emails under full sweeps and targeted lookups
\* (EmailFullSyncService, EmailTargetedService, EmailBaseService, the
\* repositories); every await of the persistence layer is a step of its own
\* ------------------------------------------------------------------------

MaxInbox == 2
MaxSyncs == 2

\* two group codes, the shorter one a substring of the longer one
LookupCodes == {Repeat("1", MIN_DIGITS), Repeat("1", MIN_DIGITS + 1)}

\* userId of the caller of a sync
Users == {1, 2}

\* DataTypes.ENUM of the column status of emails
Statuses == {"not_processed", "processing", "processed", "failed"}

\* a message of the inbox: the code 'Shipment #...' of its subject, or none;
\* its Message-ID is its number, and so is its date (a later message has a
\* later date)
InboxMessages == [subj : LookupCodes \cup {UnknownId}]

\* no row for the key
NoGroup == [present |-> FALSE, createdAt |-> 0, updatedAt |-> 0, userId |-> 0]

NoEmail == [present |-> FALSE, emailGroupId |-> Null, status |-> "none"]

\* the tables after the migration, the inbox empty
StoreEmpty ==
    /\ inbox = <<>>
    /\ groupRows = [c \in LookupCodes |-> NoGroup]
    /\ emailRows = [id \in 1..MaxInbox |-> NoEmail]
    /\ syncs = <<>>
    /\ dateNow = 1

\* the messages with the numbers nums as parseEmail and isRelevantEmail leave
\* them: emailGroupId is the code of the subject, and a message without one
\* (and without keyword) is dropped
ParsedOf(nums) ==
    {[id |-> i, emailGroupId |-> inbox[i].subj] : i \in {n \in nums : inbox[n].subj # UnknownId}}

\* emailsForGrouping: copies of dbData, which has no text, in the order of nums
ForGrouping(nums) ==
    [k \in 1..Len(nums) |->
        [emailGroupId |-> inbox[nums[k]].subj, content |-> Null, date |-> nums[k]]]

\* groupEmailsByEmailGroup(emailsForGrouping)
GroupsOf(nums) ==
    LET es == ForGrouping(nums)
    IN  createFinalEmailGroups(es, Buckets(es), 1, <<>>)

\* the messages the IMAP search OR(TEXT c, SUBJECT c) finds: c is a substring
SearchByCode(c) == {i \in 1..Len(inbox) : includes(inbox[i].subj, c)}

\* the messages getGroupedEmailGroups parses: those of the date range with a
\* code in the subject (the extended searches find them again)
SearchFiltered == {i \in 1..Len(inbox) : inbox[i].subj # UnknownId}

\* emailGroups.filter(s => s.emailGroupId.toUpperCase().includes(emailGroupId.toUpperCase()))
FilterByIncludes(gs, c) == SelectSeq(gs, LAMBDA g : includes(g.emailGroupId, c))

\* a sync that has fetched, parsed and grouped and is about to persist
NewSync(kind, requested, u, gs, parsed) ==
    [kind |-> kind, requested |-> requested, userId |-> u,
     emailGroups |-> [k \in 1..Len(gs) |-> gs[k].emailGroupId],
     parsed |-> parsed,
     phase |-> IF gs = <<>> THEN "done" ELSE "group",
     gi |-> 1, target |-> Null, pending |-> <<>>, checked |-> 0, savedCount |-> 0,
     created |-> 0, updated |-> 0, newEmails |-> 0,
     createdGroups |-> {}, lookedUp |-> {},
     savedFor |-> [c \in LookupCodes |-> 0],
     before |-> groupRows, after |-> groupRows]

\* every sync started has returned
Quiet == \A s \in 1..Len(syncs) : syncs[s].phase = "done"

\* a message arrives in the mailbox, between two syncs
Arrive(m) ==
    /\ Len(inbox) < MaxInbox
    /\ Quiet
    /\ inbox' = Append(inbox, m)
    /\ UNCHANGED <<groupRows, emailRows, syncs, dateNow>>
    /\ UNCHANGED <<lockVars, connVars, syncVars, groupingVars, fetchVars, cleanupVars>>

\* syncAllEmails up to the call of processAllEmailGroups
StartFullSync(u) ==
    /\ Len(syncs) < MaxSyncs
    /\ LET nums == Descending(SearchFiltered)
       IN  syncs' = Append(syncs, NewSync("full", Null, u, GroupsOf(nums), ParsedOf(SearchFiltered)))
    /\ dateNow' = dateNow + 1
    /\ UNCHANGED <<inbox, groupRows, emailRows>>
    /\ UNCHANGED <<lockVars, connVars, syncVars, groupingVars, fetchVars, cleanupVars>>

\* findAndSyncEmailsByGroupId up to the call of processEmailGroup on
\* emailGroups[0]; with no group left by the filter it returns group: null
StartTargetedSync(c, u) ==
    /\ Len(syncs) < MaxSyncs
    /\ LET nums == Descending(SearchByCode(c))
           gs == FilterByIncludes(GroupsOf(nums), c)
       IN  syncs' = Append(syncs, NewSync("targeted", c, u,
                                          IF gs = <<>> THEN gs ELSE <<gs[1]>>,
                                          ParsedOf(SearchByCode(c))))
    /\ dateNow' = dateNow + 1
    /\ UNCHANGED <<inbox, groupRows, emailRows>>
    /\ UNCHANGED <<lockVars, connVars, syncVars, groupingVars, fetchVars, cleanupVars>>

\* createEmailGroup: createdAt and updatedAt are new Date()
CreatedGroup(u) == [present |-> TRUE, createdAt |-> dateNow, updatedAt |-> dateNow, userId |-> u]

\* saveEmailGroupWithSummary: the group is created when
\* getEmailGroupByEmailGroupId finds none
saveEmailGroupWithSummary(rows, c, u) ==
    IF rows[c].present THEN rows ELSE [rows EXCEPT ![c] = CreatedGroup(u)]

\* the start of processSingleEmailGroup (full sweep) or of processEmailGroup
\* (targeted lookup) for the current group of sync s: the group is looked up
\* and created when it is missing, and the parsed emails are filtered
SaveGroup(s) ==
    /\ syncs[s].phase = "group"
    /\ LET y == syncs[s]
           c == y.emailGroups[y.gi]
           looked == IF y.kind = "full" THEN c ELSE y.requested
           rows == IF y.kind = "targeted" /\ groupRows[y.requested].present
                   THEN groupRows
                   ELSE saveEmailGroupWithSummary(groupRows, c, y.userId)
           wasCreated == rows # groupRows
       IN  /\ groupRows' = rows
           /\ syncs' = [syncs EXCEPT ![s] =
                  [y EXCEPT !.phase = "emails",
                            !.target = looked,
                            !.pending = Descending({pe.id : pe \in {q \in y.parsed : q.emailGroupId = looked}}),
                            !.savedCount = 0,
                            !.created = IF wasCreated THEN @ + 1 ELSE @,
                            !.updated = IF wasCreated THEN @ ELSE @ + 1,
                            !.createdGroups = IF wasCreated THEN @ \cup {c} ELSE @,
                            !.lookedUp = @ \cup {looked}]]
    /\ UNCHANGED <<inbox, emailRows, dateNow>>
    /\ UNCHANGED <<lockVars, connVars, syncVars, groupingVars, fetchVars, cleanupVars>>

\* getEmailByMessageId for the next email of the group: an email that has a
\* row is left alone, the others go on to the upsert
CheckEmail(s) ==
    /\ syncs[s].phase = "emails"
    /\ syncs[s].checked = 0
    /\ syncs[s].pending # <<>>
    /\ LET id == Head(syncs[s].pending)
       IN  syncs' = [syncs EXCEPT ![s] =
               IF emailRows[id].present
               THEN [@ EXCEPT !.pending = Tail(@)]
               ELSE [@ EXCEPT !.checked = id]]
    /\ UNCHANGED <<inbox, groupRows, emailRows, dateNow>>
    /\ UNCHANGED <<lockVars, connVars, syncVars, groupingVars, fetchVars, cleanupVars>>

\* Model.upsert(values): the row is inserted, or the given columns of the row
\* that exists are overwritten
Upsert(row, values) == values

\* Email.upsert of the email that passed the check, with status
\* 'not_processed', under the target group; the foreign key to email_groups
\* fails when the target group has no row, and the error is caught per email
UpsertEmail(s) ==
    /\ syncs[s].phase = "emails"
    /\ syncs[s].checked # 0
    /\ LET y == syncs[s]
           id == y.checked
           fails == ~ groupRows[y.target].present
           inserted == ~ emailRows[id].present
       IN  /\ emailRows' =
                  IF fails THEN emailRows
                  ELSE [emailRows EXCEPT ![id] =
                           Upsert(@, [present |-> TRUE, emailGroupId |-> y.target,
                                      status |-> "not_processed"])]
           /\ syncs' = [syncs EXCEPT ![s] =
                  [y EXCEPT !.checked = 0,
                            !.pending = Tail(@),
                            !.savedCount = IF ~ fails /\ inserted THEN @ + 1 ELSE @,
                            !.savedFor[y.target] =
                                IF ~ fails /\ inserted THEN @ + 1 ELSE @]]
    /\ UNCHANGED <<inbox, groupRows, dateNow>>
    /\ UNCHANGED <<lockVars, connVars, syncVars, groupingVars, fetchVars, cleanupVars>>

\* EmailGroupRepository.saveEmailGroup({emailGroupId, userId, updatedAt: new
\* Date()}): createdAt: emailGroupData.createdAt || new Date() goes into the
\* upsert as well
saveEmailGroup(row, u) ==
    Upsert(row, [present |-> TRUE, createdAt |-> dateNow, updatedAt |-> dateNow,
                 userId |-> u])

\* updateGroupTimestamp: saveEmailGroup with the userId of the row, when the
\* group has a row
updateGroupTimestamp(rows, c) ==
    IF rows[c].present THEN [rows EXCEPT ![c] = saveEmailGroup(@, @.userId)] ELSE rows

\* if (savedCount > 0) await this.updateGroupTimestamp(emailGroupId): in
\* saveOnlyNewEmails, which the full sweep calls; processEmailGroup of the
\* targeted lookup calls saveEmailsWithAttachments and no updateGroupTimestamp
TimestampDue(y) == y.kind = "full" /\ y.savedCount > 0

\* the end of the current group of sync s: the timestamp of the group, the
\* counters, and the next group or the return of the sync
FinishGroup(s) ==
    /\ syncs[s].phase = "emails"
    /\ syncs[s].checked = 0
    /\ syncs[s].pending = <<>>
    /\ LET y == syncs[s]
           last == y.gi >= Len(y.emailGroups)
       IN  /\ groupRows' = IF TimestampDue(y) THEN updateGroupTimestamp(groupRows, y.target)
                           ELSE groupRows
           /\ syncs' = [syncs EXCEPT ![s] =
                  [y EXCEPT !.phase = IF last THEN "done" ELSE "group",
                            !.gi = @ + 1,
                            !.newEmails = @ + y.savedCount,
                            !.after = groupRows']]
    /\ UNCHANGED <<inbox, emailRows, dateNow>>
    /\ UNCHANGED <<lockVars, connVars, syncVars, groupingVars, fetchVars, cleanupVars>>

\* EmailGroupRepository.updateEmailStatusForGroup, called by the analysis of a
\* group (GeminiService): 'processing' when the analysis starts, 'processed' or
\* 'failed' when it ends; a group is analysed while it has an email that is
\* not processed
UpdateEmailStatusForGroup(c, status) ==
    /\ status # "not_processed"
    /\ \E id \in 1..MaxInbox :
           /\ emailRows[id].present /\ emailRows[id].emailGroupId = c
           /\ IF status = "processing" THEN emailRows[id].status = "not_processed"
              ELSE emailRows[id].status = "processing"
    /\ emailRows' = [id \in 1..MaxInbox |->
                        IF emailRows[id].present /\ emailRows[id].emailGroupId = c
                        THEN [emailRows[id] EXCEPT !.status = status]
                        ELSE emailRows[id]]
    /\ UNCHANGED <<inbox, groupRows, syncs, dateNow>>
    /\ UNCHANGED <<lockVars, connVars, syncVars, groupingVars, fetchVars, cleanupVars>>

StoreInit ==
    /\ LockIdle /\ ConnIdle /\ SyncIdle /\ GroupingIdle /\ StoreEmpty
    /\ bulkFetch = <<>> /\ cleanedUp = FALSE

\* syncs that run one after the other, while messages arrive and groups are
\* analysed
StoreNext ==
    \/ \E m \in InboxMessages : Arrive(m)
    \/ \E u \in Users : Quiet /\ StartFullSync(u)
    \/ \E c \in LookupCodes, u \in Users : Quiet /\ StartTargetedSync(c, u)
    \/ \E s \in 1..Len(syncs) : SaveGroup(s)
    \/ \E s \in 1..Len(syncs) : CheckEmail(s)
    \/ \E s \in 1..Len(syncs) : UpsertEmail(s)
    \/ \E s \in 1..Len(syncs) : FinishGroup(s)
    \/ \E c \in LookupCodes, status \in Statuses : UpdateEmailStatusForGroup(c, status)

StoreSpec == StoreInit /\ [][StoreNext]_vars

\* syncs that run at the same time (the scheduler's sweep and a user's refresh)
ConcurrentStoreNext ==
    \/ \E m \in InboxMessages : Arrive(m)
    \/ \E u \in Users : StartFullSync(u)
    \/ \E c \in LookupCodes, u \in Users : StartTargetedSync(c, u)
    \/ \E s \in 1..Len(syncs) : SaveGroup(s)
    \/ \E s \in 1..Len(syncs) : CheckEmail(s)
    \/ \E s \in 1..Len(syncs) : UpsertEmail(s)
    \/ \E s \in 1..Len(syncs) : FinishGroup(s)
    \/ \E c \in LookupCodes, status \in Statuses : UpdateEmailStatusForGroup(c, status)

ConcurrentStoreSpec == StoreInit /\ [][ConcurrentStoreNext]_vars

\* ------------------------------------------------------------------------
\* Properties of the persisted groups and emails
\* ------------------------------------------------------------------------

Returned == {s \in 1..Len(syncs) : syncs[s].phase = "done"}

\* C24: in both sync strategies the persisted updatedAt of a group is advanced
\* by a sync if and only if that sync saved at least one new message for the
\* group, and updatedAt never moves backwards
C24_UpdatedAtAdvancesIffNewMessage ==
    \A s \in Returned :
        \A c \in LookupCodes :
            syncs[s].before[c].present =>
                /\ syncs[s].after[c].updatedAt >= syncs[s].before[c].updatedAt
                /\ (syncs[s].after[c].updatedAt > syncs[s].before[c].updatedAt)
                       <=> (syncs[s].savedFor[c] > 0)

\* C25: a targeted lookup for code c creates, updates and gives messages to no
\* group but the one with code c: the group it creates, the group it looks up
\* as existing and the group under which it saves messages are the same
C25_LookupTouchesOnlyRequestedGroup ==
    \A s \in Returned :
        syncs[s].kind = "targeted" =>
            /\ syncs[s].createdGroups \subseteq {syncs[s].requested}
            /\ syncs[s].lookedUp \subseteq {syncs[s].requested}
            /\ \A c \in LookupCodes :
                   (syncs[s].after[c] # syncs[s].before[c] \/ syncs[s].savedFor[c] > 0)
                       => c = syncs[s].requested

\* C26: a sync that processes a group that is persisted changes no field of
\* its row but updatedAt: code, createdAt and userId stay as they were
C26_ExistingGroupKeepsItsFields ==
    \A s \in Returned :
        \A c \in LookupCodes :
            (syncs[s].before[c].present /\ c \in syncs[s].lookedUp) =>
                /\ syncs[s].after[c].present
                /\ syncs[s].after[c].createdAt = syncs[s].before[c].createdAt
                /\ syncs[s].after[c].userId = syncs[s].before[c].userId

\* C30: a step of a sync (full sweep or targeted lookup) changes the status
\* of no message that is persisted; only a message that had no row receives
\* status not_processed from a sync
C30_SyncKeepsStatusOfPersistedEmails ==
    [][\A id \in 1..MaxInbox :
          (emailRows[id].present /\ emailRows'[id].status # emailRows[id].status)
              => UNCHANGED syncs]_vars

====
